---------------------------- MODULE Spec2Model ----------------------------
(***************************************************************************)
(* MCR4 TMODs progress tracker: the scope store, its synchronization with  *)
(* the shared document store, and the derivation of completion figures.    *)
(*                                                                         *)
(* The repository holds two variants of the application:                   *)
(*   "parts"    : src/postcss.config.cjs (scope documents hold `parts`,    *)
(*                steps carry `completed`, writes use merge: true)         *)
(*   "drawings" : src/src/App.jsx (scope documents hold `drawings`, steps  *)
(*                carry `isComplete`, writes use merge: false)             *)
(* All clients of one run execute the same variant against one store.      *)
(*                                                                         *)
(* A step is modelled by its completion flag (its id and text are never    *)
(* read by any derivation); a step list is a sequence of BOOLEAN.  Ids of  *)
(* parts and actions (crypto.randomUUID()) are fresh naturals.             *)
(***************************************************************************)
EXTENDS Naturals, Sequences, FiniteSets

VARIABLES
    variant,      \* which application variant all clients run
    store,        \* the scopes collection: document id -> stored document
    config,       \* per client: the connection configuration found at startup
    crashed,      \* per client: module evaluation threw, nothing is rendered
    db,           \* per client: useFirebase db state is set
    userId,       \* per client: "null" | "temp" (random UUID) | "uid"
    isAuthReady,  \* per client: drawings variant's isAuthReady
    signIn,       \* per client: "idle" | "custom" | "anon" | "done" | "failed"
    error,        \* per client: useFirebase error state ("none" when falsy)
    isLoading,    \* per client: useFirebase isLoading state
    scopes,       \* per client: useFirebase scopes state (id -> document)
    subscribed,   \* per client: an onSnapshot listener is attached
    snapPending,  \* per client: the listener has a snapshot to deliver
    writes,       \* per client: writes handed to the SDK, not yet applied
    modal,        \* per client: the open modal and its form state
    seeded,       \* number of seeding batches issued so far
    submitted,    \* number of documents user handlers have submitted so far
    seedCommits,  \* number of seeding batches the store has applied
    lastApplied,  \* the write the store applied last (observation only)
    prevApplied,  \* the write the store applied before that (observation only)
    arg,          \* the input handed to a derivation function evaluated on its own
    res,          \* what that function returned
    localImageUrl \* per client: the cards holding an uploaded image (component state)

vars == << variant, store, config, crashed, db, userId, isAuthReady,
           signIn, error, isLoading, scopes, subscribed, snapPending, writes,
           modal, seeded, submitted, seedCommits, lastApplied, prevApplied, arg, res, localImageUrl >>

-----------------------------------------------------------------------------
(* Bounds of the model *)

MaxSteps == 3
MaxActions == 2
MaxParts == 3
MaxSubmitted == 3
MaxPending == 1
MaxSeeds == 2
MaxConcurrent == 2
MaxFaulty == 1

Clients == {"c1", "c2"}

LEAD_ABATEMENT_ID == "lead_abatement"
OtherScopeId == "4113a"
SummaryId == "summary"

\* The scope catalog, cut down to the distinguished scope and one other scope.
ScopeIds == {LEAD_ABATEMENT_ID, OtherScopeId}

Variants == {"parts", "drawings"}

\* drawings variant: the scopes other than Lead Abatement, by id
OTHER_SCOPES == ScopeIds \ {LEAD_ABATEMENT_ID}

-----------------------------------------------------------------------------
(* Arithmetic helpers *)

\* Math.round(num / den) for num >= 0, den > 0: floor(num/den + 1/2).
Round(num, den) == (2 * num + den) \div (2 * den)

RECURSIVE SumSeq(_)
SumSeq(s) == IF s = << >> THEN 0 ELSE Head(s) + SumSeq(Tail(s))

\* steps.filter(s => s.completed).length
CountTrue(s) == Cardinality({ i \in 1..Len(s) : s[i] })

RECURSIVE SelectIdx(_, _, _)
\* the subsequence of s at the indices (in order, from i on) that lie in keep
SelectIdx(s, keep, i) ==
    IF i > Len(s) THEN << >>
    ELSE (IF i \in keep THEN << s[i] >> ELSE << >>) \o SelectIdx(s, keep, i + 1)

\* Array.prototype.filter by id
RemoveId(s, id) == SelectIdx(s, {i \in 1..Len(s) : s[i].id # id}, 1)

HasId(s, id) == \E i \in 1..Len(s) : s[i].id = id

-----------------------------------------------------------------------------
(* Completion calculator, parts variant *)

\* a label that calls every percentage below 100 In Progress
getStatusLabelStarted(percent) ==
    IF percent = 100 THEN "Complete" ELSE "In Progress"

getStatusLabel(percent) ==
    IF percent = 100 THEN "Complete"
    ELSE IF percent > 0 THEN "In Progress"
    ELSE "Not Started"

calculateStepCompletion(steps) ==
    IF Len(steps) = 0 THEN 0
    ELSE Round(CountTrue(steps) * 100, Len(steps))

\* item.percentComplete || 0
PercentOrZero(item) ==
    IF "percentComplete" \in DOMAIN item THEN item.percentComplete ELSE 0

calculateOverallCompletion(items) ==
    IF Len(items) = 0 THEN 0
    ELSE Round(SumSeq([i \in 1..Len(items) |-> PercentOrZero(items[i])]),
               Len(items))

(* Completion calculator, drawings variant *)

isStepPrereq(key) == key = "materials" \/ key = "generalPrereqs"

\* a step percentage that truncates instead of rounding
calculatePercentFromStepsFloor(steps) ==
    IF Len(steps) = 0 THEN 0
    ELSE (CountTrue(steps) * 100) \div Len(steps)

calculatePercentFromSteps(steps) ==
    IF Len(steps) = 0 THEN 0
    ELSE Round(CountTrue(steps) * 100, Len(steps))

-----------------------------------------------------------------------------
(* Documents, parts variant *)

\* imageAttachment: null
NoAttachment == [ isNull |-> TRUE ]

\* a JS Date handed to Firestore is stored as a Timestamp
ToFirestore(doc) ==
    IF "createdAt" \in DOMAIN doc /\ doc.createdAt = "Date"
    THEN [doc EXCEPT !.createdAt = "Timestamp"] ELSE doc

\* a sanitizer that loses the creation time
sanitizeDataDropping(data) ==
    [ f \in DOMAIN data \ {"createdAt"} |-> data[f] ]

\* JSON.parse(JSON.stringify(data)): a Timestamp becomes a plain object
sanitizeData(data) ==
    IF "createdAt" \in DOMAIN data /\ data.createdAt \in {"Timestamp", "Date"}
    THEN [data EXCEPT !.createdAt =
              IF data.createdAt = "Timestamp" THEN "TimestampJSON" ELSE "DateString"]
    ELSE data

createDefaultPart(id) ==
    [ id |-> id, title |-> "default", imageUrl |-> "", actions |-> << >>,
      relatedScopeId |-> "none", percentComplete |-> 0 ]

\* one entry of initialScopesData
initialScopesData(id) ==
    [ id |-> id, title |-> id,
      type |-> IF id = SummaryId THEN "summary" ELSE "scope" ]

CatalogIds == {SummaryId} \cup ScopeIds

P_createDefaultScopeData(scopeId, id1, id2) ==
    [ id |-> scopeId,
      prereqStatusLeadAbatement |-> "Not Started",
      prereqStatusMaterials |->
          [ status |-> "Not Started", notes |-> "", steps |-> << FALSE >> ],
      prereqStatusGeneral |->
          [ status |-> "Not Started", notes |-> "", steps |-> << FALSE >> ],
      parts |-> << createDefaultPart(id1), createDefaultPart(id2) >> ]

\* record union, the right operand winning: { ...a, ...b }
Spread(a, b) ==
    [ f \in DOMAIN a \cup DOMAIN b |-> IF f \in DOMAIN b THEN b[f] ELSE a[f] ]

\* the documents of the seeding batch; k numbers the batch (fresh UUIDs)
P_SeedDoc(id, k) ==
    LET base == initialScopesData(id)
        dflt == Spread(base, P_createDefaultScopeData(id, 10 * k + 3, 10 * k + 4))
        doc  == IF id = SummaryId THEN base
                ELSE IF id = LEAD_ABATEMENT_ID
                THEN [ dflt EXCEPT
                         !.prereqStatusLeadAbatement = "N/A",
                         !.prereqStatusMaterials =
                             [ status |-> "N/A", notes |-> "", steps |-> << >> ],
                         !.prereqStatusGeneral =
                             [ status |-> "N/A", notes |-> "", steps |-> << >> ],
                         !.parts = << createDefaultPart(10 * k + 1),
                                      createDefaultPart(10 * k + 2) >> ]
                ELSE dflt
    IN  Spread(doc, [ createdAt |-> "Date" ])

P_SeedBatch(k) == [ id \in CatalogIds |-> P_SeedDoc(id, k) ]

(* Documents, drawings variant *)

D_createDefaultScopeData(scopeId, drawingId, actionId) ==
    [ id |-> scopeId, title |-> scopeId,
      prereqs |->
        [ materials |->
              [ status |-> "Not Started", notes |-> "",
                steps |-> << FALSE, FALSE, FALSE >> ],
          leadAbatement |->
              [ status |-> IF scopeId = LEAD_ABATEMENT_ID
                           THEN "In Progress" ELSE "Not Started",
                notes |-> "", steps |-> << >> ],
          generalPrereqs |->
              [ status |-> "Not Started", notes |-> "",
                steps |-> << FALSE, FALSE >> ] ],
      drawings |->
        << [ id |-> drawingId, name |-> "default", imageUrl |-> "",
             relatedScopeId |-> "null",
             actions |-> << [ id |-> actionId, percentComplete |-> 0,
                              steps |-> << FALSE >>,
                              imageAttachment |-> NoAttachment ] >> ] >> ]

D_SeedBatch(k) ==
    [ id \in ScopeIds |->
        IF id = LEAD_ABATEMENT_ID
        THEN D_createDefaultScopeData(id, 10 * k + 1, 10 * k + 2)
        ELSE D_createDefaultScopeData(id, 10 * k + 3, 10 * k + 4) ]

-----------------------------------------------------------------------------
(* The document store (Firestore) *)

\* fields holding nested maps, which setDoc(..., {merge: true}) merges
MapFields == {"prereqStatusMaterials", "prereqStatusGeneral"}

\* a merge that keeps every field the stored document already has
MergeDocKeepStored(old, new) ==
    [ f \in DOMAIN old \cup DOMAIN new |-> IF f \in DOMAIN old THEN old[f] ELSE new[f] ]

\* setDoc(ref, new, {merge: true}) on a stored document old
MergeDoc(old, new) ==
    [ f \in DOMAIN old \cup DOMAIN new |->
        IF f \notin DOMAIN new THEN old[f]
        ELSE IF f \in MapFields /\ f \in DOMAIN old THEN Spread(old[f], new[f])
        ELSE new[f] ]

\* a store in which a setDoc lands on every document of the collection
ApplyToStoreAnyDoc(st, w) ==
    IF w.kind = "batch"
    THEN [ id \in DOMAIN st \cup DOMAIN w.docs |->
             IF id \in DOMAIN w.docs THEN ToFirestore(w.docs[id]) ELSE st[id] ]
    ELSE [ id \in DOMAIN st \cup {w.id} |-> ToFirestore(w.data) ]

\* the store after it applies write w: a seeding batch (batch.set per
\* document, no merge) or one setDoc
ApplyToStore(st, w) ==
    IF w.kind = "batch"
    THEN [ id \in DOMAIN st \cup DOMAIN w.docs |->
             IF id \in DOMAIN w.docs THEN ToFirestore(w.docs[id]) ELSE st[id] ]
    ELSE [ id \in DOMAIN st \cup {w.id} |->
             IF id # w.id THEN st[id]
             ELSE IF w.merge /\ id \in DOMAIN st
                  THEN MergeDoc(st[id], ToFirestore(w.data))
                  ELSE ToFirestore(w.data) ]

RECURSIVE ApplyAll(_, _)
ApplyAll(st, ws) ==
    IF ws = << >> THEN st ELSE ApplyAll(ApplyToStore(st, Head(ws)), Tail(ws))

\* what client c's listener sees: the store with c's own pending writes
\* applied on top (the SDK's latency compensation)
View(c) == ApplyAll(store, writes[c])

NoModal == [ kind |-> "none" ]
NoDoc == [ id |-> "none" ]
NoWrite == [ by |-> "nobody", kind |-> "none", id |-> "none", data |-> NoDoc,
             base |-> NoDoc, conflict |-> FALSE, overlap |-> FALSE ]

-----------------------------------------------------------------------------
(* Initial state: no client has started, the collection is empty *)

ConfigKinds == {"valid", "missing", "unparseable", "incomplete"}

NoArg == [ kind |-> "none" ]

\* the state of every client and of the store before anything has run
Constructed ==
    /\ variant \in Variants
    /\ store = << >>
    /\ config = [ c \in Clients |-> "unread" ]
    /\ crashed = [ c \in Clients |-> FALSE ]
    /\ db = [ c \in Clients |-> FALSE ]
    /\ userId = [ c \in Clients |-> "null" ]
    /\ isAuthReady = [ c \in Clients |-> FALSE ]
    /\ signIn = [ c \in Clients |-> "idle" ]
    /\ error = [ c \in Clients |-> "none" ]
    /\ isLoading = [ c \in Clients |-> TRUE ]
    /\ scopes = [ c \in Clients |-> << >> ]
    /\ subscribed = [ c \in Clients |-> FALSE ]
    /\ snapPending = [ c \in Clients |-> FALSE ]
    /\ writes = [ c \in Clients |-> << >> ]
    /\ modal = [ c \in Clients |-> NoModal ]
    /\ seeded = 0
    /\ submitted = 0
    /\ seedCommits = 0
    /\ lastApplied = NoWrite
    /\ prevApplied = NoWrite
    /\ localImageUrl = [ c \in Clients |-> {} ]

Init ==
    /\ Constructed
    /\ arg = NoArg
    /\ res = NoArg

docVars == << store, writes, seeded, submitted, seedCommits, lastApplied, prevApplied, arg, res, localImageUrl >>
uiVars == << scopes, modal >>

-----------------------------------------------------------------------------
(* useFirebase: configuration, initialization and authentication *)

\* parts variant, getFirebaseConfig + the firebaseConfig/firebaseApp memos:
\* TRUE when an app is initialized.  A missing global falls back to the
\* hardcoded JSON and counts as "valid"; "missing" is an empty or boilerplate
\* string, "unparseable" fails JSON.parse, "incomplete" lacks apiKey.
getFirebaseConfig(kind) == kind = "valid"

\* parts variant, effect 2's guard: db && userId && !error
P_ShouldSubscribe(d, u, e) == d /\ u # "null" /\ e = "none"

\* parts variant: effect 2 re-runs whenever db, userId or error changed; its
\* cleanup detaches the old listener, a new one starts with a first snapshot
P_Subscribed(c, d, u, e) ==
    IF << d, u, e >> = << db[c], userId[c], error[c] >> THEN subscribed[c]
    ELSE P_ShouldSubscribe(d, u, e)

P_SnapPending(c, d, u, e) ==
    IF << d, u, e >> = << db[c], userId[c], error[c] >> THEN snapPending[c]
    ELSE P_ShouldSubscribe(d, u, e)

\* the state updates of one parts-variant render cycle that sets db, userId
\* and error to d, u, e, followed by effect 2
P_Commit(c, d, u, e) ==
    /\ db' = [ db EXCEPT ![c] = d ]
    /\ userId' = [ userId EXCEPT ![c] = u ]
    /\ error' = [ error EXCEPT ![c] = e ]
    /\ subscribed' = [ subscribed EXCEPT ![c] = P_Subscribed(c, d, u, e) ]
    /\ snapPending' = [ snapPending EXCEPT ![c] = P_SnapPending(c, d, u, e) ]
    \* the error view replaces the page: modal form state is dropped
    /\ modal' = IF e # "none" THEN [ modal EXCEPT ![c] = NoModal ] ELSE modal

\* parts variant: first render and effect 1
P_Start(c) ==
    /\ variant = "parts"
    /\ config[c] = "unread"
    /\ \E kind \in ConfigKinds :
        /\ config' = [ config EXCEPT ![c] = kind ]
        /\ IF getFirebaseConfig(kind)
           THEN /\ \E tok \in BOOLEAN :
                     signIn' = [ signIn EXCEPT ![c] = IF tok THEN "custom" ELSE "anon" ]
                /\ P_Commit(c, TRUE, userId[c], error[c])
                /\ UNCHANGED isLoading
           ELSE /\ P_Commit(c, FALSE, userId[c], "config")
                /\ isLoading' = [ isLoading EXCEPT ![c] = FALSE ]
                /\ UNCHANGED signIn
    /\ UNCHANGED << variant, crashed, isAuthReady, scopes, docVars >>

\* parts variant: onAuthStateChanged reports no user while the sign-in that
\* authenticate() started has not produced one; userId becomes a throwaway UUID
P_AuthStateNoUser(c) ==
    /\ variant = "parts"
    /\ db[c] /\ userId[c] = "null" /\ signIn[c] \in {"custom", "anon", "failed"}
    /\ P_Commit(c, db[c], "temp", error[c])
    /\ UNCHANGED << variant, config, crashed, isAuthReady, signIn, isLoading,
                    scopes, docVars >>

\* parts variant: the sign-in resolves, onAuthStateChanged reports the user
P_SignInOk(c) ==
    /\ variant = "parts"
    /\ signIn[c] \in {"custom", "anon"}
    /\ signIn' = [ signIn EXCEPT ![c] = "done" ]
    /\ P_Commit(c, db[c], "uid", error[c])
    /\ UNCHANGED << variant, config, crashed, isAuthReady, isLoading, scopes,
                    docVars >>

\* parts variant: the sign-in rejects, authenticate() sets the error
P_SignInFails(c) ==
    /\ variant = "parts"
    /\ signIn[c] \in {"custom", "anon"}
    /\ signIn' = [ signIn EXCEPT ![c] = "failed" ]
    /\ P_Commit(c, db[c], userId[c], "auth")
    /\ UNCHANGED << variant, config, crashed, isAuthReady, isLoading, scopes,
                    docVars >>

\* drawings variant: module evaluation (JSON.parse of the global) and effect 1.
\* "incomplete" is a configuration the SDK rejects inside the try block.
D_Start(c) ==
    /\ variant = "drawings"
    /\ config[c] = "unread"
    /\ \E kind \in ConfigKinds :
        /\ config' = [ config EXCEPT ![c] = kind ]
        /\ crashed' = [ crashed EXCEPT ![c] = (kind = "unparseable") ]
        /\ db' = [ db EXCEPT ![c] = (kind = "valid") ]
        /\ error' = [ error EXCEPT ![c] =
                        IF kind = "missing" THEN "config"
                        ELSE IF kind = "incomplete" THEN "init" ELSE "none" ]
        /\ isLoading' = [ isLoading EXCEPT ![c] =
                            kind \notin {"missing", "incomplete"} ]
    /\ UNCHANGED << variant, userId, isAuthReady, signIn, subscribed,
                    snapPending, uiVars, docVars >>

\* drawings variant: onAuthStateChanged reports no user; with a token the
\* custom sign-in is tried, otherwise handleAuth(null) signs in anonymously
D_AuthStateNoUser(c) ==
    /\ variant = "drawings"
    /\ db[c] /\ signIn[c] = "idle"
    /\ \E tok \in BOOLEAN :
         signIn' = [ signIn EXCEPT ![c] = IF tok THEN "custom" ELSE "anon" ]
    /\ UNCHANGED << variant, config, crashed, db, userId, isAuthReady, error,
                    isLoading, subscribed, snapPending, uiVars, docVars >>

\* drawings variant: a sign-in resolves; handleAuth(user) sets userId and
\* isAuthReady, and effect 2 (deps db, isAuthReady) attaches the listener
D_SignInOk(c) ==
    /\ variant = "drawings"
    /\ signIn[c] \in {"custom", "anon"}
    /\ signIn' = [ signIn EXCEPT ![c] = "done" ]
    /\ userId' = [ userId EXCEPT ![c] = "uid" ]
    /\ isAuthReady' = [ isAuthReady EXCEPT ![c] = TRUE ]
    /\ subscribed' = [ subscribed EXCEPT ![c] = TRUE ]
    /\ snapPending' = [ snapPending EXCEPT ![c] = TRUE ]
    /\ UNCHANGED << variant, config, crashed, db, error, isLoading, uiVars,
                    docVars >>

\* drawings variant: the custom-token sign-in rejects and the catch handler
\* falls back to signInAnonymously; an anonymous sign-in that rejects leaves
\* the promise unhandled and isAuthReady unset
D_SignInFails(c) ==
    /\ variant = "drawings"
    /\ signIn[c] \in {"custom", "anon"}
    /\ signIn' = [ signIn EXCEPT ![c] = IF signIn[c] = "custom" THEN "anon" ELSE "failed" ]
    /\ UNCHANGED << variant, config, crashed, db, userId, isAuthReady, error,
                    isLoading, subscribed, snapPending, uiVars, docVars >>

-----------------------------------------------------------------------------
(* useFirebase: the snapshot listener and seeding *)

\* parts variant: the listener's merge of the fetched documents over the
\* catalog defaults (scopes state is the catalog-ordered array)
P_ProcessSnapshot(view) ==
    [ id \in CatalogIds |->
        IF id \in DOMAIN view
        THEN Spread(initialScopesData(id), sanitizeData(view[id]))
        ELSE IF initialScopesData(id).type = "scope"
        THEN Spread(initialScopesData(id), P_createDefaultScopeData(id, 1, 2))
        ELSE initialScopesData(id) ]

\* drawings variant: fetchedScopes[doc.id] = doc.data()
D_ProcessSnapshot(view) == view

\* a modal lives inside the card of its part: it goes when the part goes
ModalAfter(m, newScopes) ==
    IF m.kind = "action"
       /\ ~ ( m.scopeId \in DOMAIN newScopes
              /\ IF variant = "parts"
                 THEN HasId(newScopes[m.scopeId].parts, m.partId)
                 ELSE HasId(newScopes[m.scopeId].drawings, m.partId) )
    THEN NoModal
    ELSE m

\* the seeding batch handed to the SDK by the listener on an empty snapshot
SeedWrite(k) ==
    [ kind |-> "batch",
      docs |-> IF variant = "parts" THEN P_SeedBatch(k) ELSE D_SeedBatch(k) ]

\* the onSnapshot success callback of either variant.  On an empty snapshot
\* the seeding batch is built and committed (the commit is asynchronous);
\* otherwise the scopes state is replaced by the processed snapshot.
DeliverSnapshot(c) ==
    /\ subscribed[c] /\ snapPending[c]
    /\ LET view == View(c) IN
       IF DOMAIN view = {}
       THEN /\ seeded < MaxSeeds
            /\ writes' = [ writes EXCEPT ![c] = Append(@, SeedWrite(seeded + 1)) ]
            /\ seeded' = seeded + 1
            /\ isLoading' = [ isLoading EXCEPT ![c] = TRUE ]
            \* the pending batch is visible to the local listener at once
            /\ snapPending' = [ snapPending EXCEPT ![c] = TRUE ]
            /\ modal' = [ modal EXCEPT ![c] = NoModal ]
            /\ UNCHANGED scopes
       ELSE /\ scopes' = [ scopes EXCEPT ![c] =
                             IF variant = "parts" THEN P_ProcessSnapshot(view)
                             ELSE D_ProcessSnapshot(view) ]
            /\ isLoading' = [ isLoading EXCEPT ![c] = FALSE ]
            /\ snapPending' = [ snapPending EXCEPT ![c] = FALSE ]
            /\ modal' = [ modal EXCEPT ![c] = ModalAfter(@, scopes'[c]) ]
            /\ UNCHANGED << writes, seeded >>
    /\ UNCHANGED << variant, store, config, crashed, db, userId, isAuthReady,
                    signIn, error, subscribed, submitted, seedCommits, lastApplied, prevApplied, arg, res, localImageUrl >>

\* setError(msg) of either variant with the follow-up of its render cycle:
\* in the parts variant effect 2 depends on error and detaches the listener;
\* in the drawings variant the listener stays unless listenerDead
SetError(c, msg, listenerDead) ==
    IF variant = "parts"
    THEN /\ P_Commit(c, db[c], userId[c], msg)
         /\ UNCHANGED isAuthReady
    ELSE /\ error' = [ error EXCEPT ![c] = msg ]
         /\ modal' = [ modal EXCEPT ![c] = NoModal ]
         /\ subscribed' = [ subscribed EXCEPT ![c] = @ /\ ~listenerDead ]
         /\ snapPending' = [ snapPending EXCEPT ![c] =
                               IF listenerDead THEN FALSE ELSE subscribed[c] ]
         /\ UNCHANGED << db, userId, isAuthReady >>

\* the onSnapshot error callback: the store rejects the listener
SubscriptionFails(c) ==
    /\ subscribed[c]
    /\ SetError(c, "snapshot", TRUE)
    /\ isLoading' = [ isLoading EXCEPT ![c] = FALSE ]
    /\ UNCHANGED << variant, config, crashed, signIn, scopes, docVars >>

\* what a client holding stored document d would have as its scopes entry
ReadDoc(id, d) ==
    IF variant = "parts" THEN Spread(initialScopesData(id), sanitizeData(d)) ELSE d

\* the store applies the oldest pending write of client c
ApplyWrite(c) ==
    /\ writes[c] # << >>
    /\ LET w == Head(writes[c]) IN
        /\ store' = ApplyToStore(store, w)
        /\ seedCommits' = IF w.kind = "batch" THEN seedCommits + 1 ELSE seedCommits
        /\ lastApplied' =
             IF w.kind = "batch"
             THEN [ by |-> c, kind |-> "batch", id |-> "all",
                    data |-> NoDoc, base |-> NoDoc,
                    conflict |-> (DOMAIN store # {}),
                    overlap |-> \E d \in Clients \ {c} : writes[d] # << >> ]
             ELSE [ by |-> c, kind |-> "set", id |-> w.id,
                    data |-> w.data, base |-> w.base,
                    conflict |-> ( w.id \in DOMAIN store
                                   /\ ReadDoc(w.id, store[w.id]) # w.base ),
                    overlap |-> \E d \in Clients \ {c} : writes[d] # << >> ]
        /\ prevApplied' = lastApplied
    /\ writes' = [ writes EXCEPT ![c] = Tail(@) ]
    \* every other attached listener gets a new snapshot
    /\ snapPending' = [ d \in Clients |->
                          IF d # c /\ subscribed[d] THEN TRUE ELSE snapPending[d] ]
    /\ UNCHANGED << variant, config, crashed, db, userId, isAuthReady, signIn,
                    error, isLoading, subscribed, uiVars, seeded, submitted,
                    arg, res, localImageUrl >>

\* the store rejects the oldest pending write of client c: the catch block of
\* updateScopeData, or of the batch commit, sets the error
FailWrite(c) ==
    /\ writes[c] # << >>
    /\ LET w == Head(writes[c]) IN
        /\ SetError(c, IF w.kind = "batch" THEN "seed" ELSE "write", FALSE)
        /\ isLoading' = [ isLoading EXCEPT ![c] =
                            IF w.kind = "batch" /\ variant = "drawings"
                            THEN FALSE ELSE @ ]
    /\ writes' = [ writes EXCEPT ![c] = Tail(@) ]
    /\ UNCHANGED << variant, store, config, crashed, signIn, scopes, seeded,
                    submitted, seedCommits, lastApplied, prevApplied, arg, res, localImageUrl >>

-----------------------------------------------------------------------------
(* The write path and what the page renders *)

\* a write path that stamps a lead-abatement status into the document of a
\* scope other than Lead Abatement
updateScopeDataStamping(c, scopeId, data) ==
    /\ writes' = [ writes EXCEPT ![c] =
                     IF ~db[c] THEN @
                     ELSE Append(@, [ kind |-> "set", id |-> scopeId,
                                      data |-> IF scopeId = LEAD_ABATEMENT_ID THEN data
                                               ELSE IF variant = "parts"
                                               THEN [ sanitizeData(data) EXCEPT
                                                        !.prereqStatusLeadAbatement = "N/A" ]
                                               ELSE [ data EXCEPT
                                                        !.prereqs.leadAbatement.status = "N/A" ],
                                      merge |-> (variant = "parts"),
                                      base |-> scopes[c][scopeId] ]) ]
    /\ snapPending' = [ snapPending EXCEPT ![c] = @ \/ (db[c] /\ subscribed[c]) ]

\* updateScopeData(scopeId, data) of either variant: without db it returns;
\* the parts variant sanitizes and merges, the drawings variant overwrites.
\* base (observation only) is the caller's snapshot of the document.
updateScopeData(c, scopeId, data) ==
    /\ writes' = [ writes EXCEPT ![c] =
                     IF ~db[c] THEN @
                     ELSE Append(@, [ kind |-> "set", id |-> scopeId,
                                      data |-> IF variant = "parts"
                                               THEN sanitizeData(data) ELSE data,
                                      merge |-> (variant = "parts"),
                                      base |-> scopes[c][scopeId] ]) ]
    /\ snapPending' = [ snapPending EXCEPT ![c] = @ \/ (db[c] /\ subscribed[c]) ]

\* App's content selection: scope pages are rendered (and their handlers can
\* run) only without error and once loading is over
Rendered(c) ==
    /\ ~crashed[c]
    /\ error[c] = "none"
    /\ ~isLoading[c]
    /\ IF variant = "parts" THEN DOMAIN scopes[c] # {} ELSE userId[c] # "null"

\* the error view is what App renders
ErrorView(c) == ~crashed[c] /\ error[c] # "none"

\* a handler of page s can run: the page is rendered, no modal covers it
PageReady(c, s) ==
    /\ Rendered(c)
    /\ s \in DOMAIN scopes[c]
    /\ modal[c] = NoModal
    /\ Len(writes[c]) < MaxPending
    /\ submitted < MaxSubmitted

frameVars == << variant, store, config, crashed, db, userId, isAuthReady,
                signIn, error, isLoading, scopes, subscribed, seeded,
                seedCommits, lastApplied, prevApplied, arg, res, localImageUrl >>

Titles == {"default", "renamed"}

-----------------------------------------------------------------------------
(* Mutation handlers, parts variant: the document each one submits *)

P_handleRename(scope, part, newTitle) ==
    LET updatedParts == [ i \in 1..Len(scope.parts) |->
            IF scope.parts[i].id = part.id
            THEN [ scope.parts[i] EXCEPT !.title = newTitle ]
            ELSE scope.parts[i] ]
    IN  [ scope EXCEPT !.parts = updatedParts ]

handleDeletePart(scope, part) ==
    [ scope EXCEPT !.parts = RemoveId(scope.parts, part.id) ]

\* a toggle that flips the percentage and leaves the steps as they were
handleActionToggleKeepingSteps(scope, part, actionId) ==
    LET updatedActions == [ j \in 1..Len(part.actions) |->
            LET a == part.actions[j] IN
            IF a.id = actionId
            THEN [ a EXCEPT !.percentComplete = IF a.percentComplete = 100 THEN 0 ELSE 100 ]
            ELSE a ]
        partCompletion == calculateOverallCompletion(updatedActions)
        updatedParts == [ i \in 1..Len(scope.parts) |->
            IF scope.parts[i].id = part.id
            THEN [ scope.parts[i] EXCEPT !.actions = updatedActions,
                                         !.percentComplete = partCompletion ]
            ELSE scope.parts[i] ]
    IN  [ scope EXCEPT !.parts = updatedParts ]

handleActionToggleMutant(scope, part, actionId) ==
    LET updatedActions == [ j \in 1..Len(part.actions) |->
            LET a == part.actions[j] IN
            IF a.id = actionId
            THEN [ a EXCEPT !.percentComplete = IF a.percentComplete = 100 THEN 0 ELSE 100,
                            !.steps = [ k \in 1..Len(a.steps) |-> a.percentComplete = 0 ] ]
            ELSE a ]
        updatedParts == [ i \in 1..Len(scope.parts) |->
            IF scope.parts[i].id = part.id
            THEN [ scope.parts[i] EXCEPT !.actions = updatedActions ]
            ELSE scope.parts[i] ]
    IN  [ scope EXCEPT !.parts = updatedParts ]

handleActionToggle(scope, part, actionId) ==
    LET updatedActions == [ j \in 1..Len(part.actions) |->
            LET a == part.actions[j] IN
            IF a.id = actionId
            THEN [ a EXCEPT !.percentComplete = IF a.percentComplete = 100 THEN 0 ELSE 100,
                            !.steps = [ k \in 1..Len(a.steps) |-> a.percentComplete = 0 ] ]
            ELSE a ]
        partCompletion == calculateOverallCompletion(updatedActions)
        updatedParts == [ i \in 1..Len(scope.parts) |->
            IF scope.parts[i].id = part.id
            THEN [ scope.parts[i] EXCEPT !.actions = updatedActions,
                                         !.percentComplete = partCompletion ]
            ELSE scope.parts[i] ]
    IN  [ scope EXCEPT !.parts = updatedParts ]

P_handleRelatedScopeChange(scope, part, newScopeId) ==
    LET updatedParts == [ i \in 1..Len(scope.parts) |->
            IF scope.parts[i].id = part.id
            THEN [ scope.parts[i] EXCEPT !.relatedScopeId = newScopeId ]
            ELSE scope.parts[i] ]
    IN  [ scope EXCEPT !.parts = updatedParts ]

handleAddAction(scope, part, newId) ==
    LET newAction == [ id |-> newId, percentComplete |-> 0,
                       steps |-> << FALSE >> ]
        appended == [ i \in 1..Len(scope.parts) |->
            IF scope.parts[i].id = part.id
            THEN [ scope.parts[i] EXCEPT !.actions = Append(@, newAction) ]
            ELSE scope.parts[i] ]
        \* newPart.percentComplete = calculateOverallCompletion(newPart.actions)
        updatedParts == [ i \in 1..Len(appended) |->
            IF appended[i].id = part.id
            THEN [ appended[i] EXCEPT !.percentComplete =
                       calculateOverallCompletion(appended[i].actions) ]
            ELSE appended[i] ]
    IN  [ scope EXCEPT !.parts = updatedParts ]

\* a delete that empties the action list of every part
handleDeleteActionEverywhere(scope, part, actionId) ==
    [ scope EXCEPT !.parts = [ i \in 1..Len(scope.parts) |->
          [ scope.parts[i] EXCEPT !.actions = << >>, !.percentComplete = 0 ] ] ]

handleDeleteAction(scope, part, actionId) ==
    LET updatedActions == RemoveId(part.actions, actionId)
        partCompletion == calculateOverallCompletion(updatedActions)
        updatedParts == [ i \in 1..Len(scope.parts) |->
            IF scope.parts[i].id = part.id
            THEN [ scope.parts[i] EXCEPT !.actions = updatedActions,
                                         !.percentComplete = partCompletion ]
            ELSE scope.parts[i] ]
    IN  [ scope EXCEPT !.parts = updatedParts ]

\* an add that puts the new part first
handleAddPartFirst(scope, newId) ==
    [ scope EXCEPT !.parts = << createDefaultPart(newId) >> \o @ ]

handleAddPart(scope, newId) ==
    [ scope EXCEPT !.parts = Append(@, createDefaultPart(newId)) ]

\* ActionModal.handleSave: action is the action the modal was opened on,
\* steps the modal's step list; no image was chosen in the modal
\* an ActionModal save that keeps the uploaded data URL in the attachment
P_ActionModal_handleSaveWithBytes(scope, part, action, steps, dataURL) ==
    LET calculatedPercent == calculateStepCompletion(steps)
        updatedAction == Spread(action,
            [ steps |-> steps, percentComplete |-> calculatedPercent,
              imageAttachment |-> dataURL ])
        updatedParts == [ i \in 1..Len(scope.parts) |->
            LET p == scope.parts[i] IN
            IF p.id = part.id
            THEN LET updatedActions == [ j \in 1..Len(p.actions) |->
                         IF p.actions[j].id = action.id THEN updatedAction
                         ELSE p.actions[j] ]
                 IN  [ p EXCEPT !.actions = updatedActions,
                                !.percentComplete =
                                    calculateOverallCompletion(updatedActions) ]
            ELSE p ]
    IN  [ scope EXCEPT !.parts = updatedParts ]

\* ActionModal.handleSave; dataURL is the modal's image state
P_ActionModal_handleSave(scope, part, action, steps, dataURL) ==
    LET calculatedPercent == calculateStepCompletion(steps)
        updatedAction == Spread(action,
            [ steps |-> steps, percentComplete |-> calculatedPercent,
              imageAttachment |-> IF dataURL # NoAttachment
                                  THEN [ name |-> "Attachment", saved |-> FALSE ]
                                  ELSE NoAttachment ])
        updatedParts == [ i \in 1..Len(scope.parts) |->
            LET p == scope.parts[i] IN
            IF p.id = part.id
            THEN LET updatedActions == [ j \in 1..Len(p.actions) |->
                         IF p.actions[j].id = action.id THEN updatedAction
                         ELSE p.actions[j] ]
                 IN  [ p EXCEPT !.actions = updatedActions,
                                !.percentComplete =
                                    calculateOverallCompletion(updatedActions) ]
            ELSE p ]
    IN  [ scope EXCEPT !.parts = updatedParts ]

\* a save that stores the edited steps and leaves the status as it was
P_PrereqModal_handleSaveStale(scope, prereqKey, steps) ==
    [ scope EXCEPT ![prereqKey] = Spread(scope[prereqKey], [ steps |-> steps ]) ]

\* PrereqModal.handleSave
P_PrereqModal_handleSave(scope, prereqKey, steps) ==
    LET calculatedPercent == calculateStepCompletion(steps)
        newStatus == getStatusLabel(calculatedPercent)
    IN  [ scope EXCEPT ![prereqKey] =
              Spread(scope[prereqKey], [ status |-> newStatus, steps |-> steps ]) ]

-----------------------------------------------------------------------------
(* Mutation handlers, drawings variant: the document each one submits *)

D_handleRename(scope, drawing, newName) ==
    LET newDrawings == [ i \in 1..Len(scope.drawings) |->
            IF scope.drawings[i].id = drawing.id
            THEN [ scope.drawings[i] EXCEPT !.name = newName ]
            ELSE scope.drawings[i] ]
    IN  [ scope EXCEPT !.drawings = newDrawings ]

D_handleRelatedScopeChange(scope, drawing, newRelatedScopeId) ==
    LET newDrawings == [ i \in 1..Len(scope.drawings) |->
            IF scope.drawings[i].id = drawing.id
            THEN [ scope.drawings[i] EXCEPT !.relatedScopeId = newRelatedScopeId ]
            ELSE scope.drawings[i] ]
    IN  [ scope EXCEPT !.drawings = newDrawings ]

addAction(scope, drawing, newId) ==
    LET newAction == [ id |-> newId, percentComplete |-> 0,
                       steps |-> << FALSE >>, imageAttachment |-> NoAttachment ]
        newDrawings == [ i \in 1..Len(scope.drawings) |->
            IF scope.drawings[i].id = drawing.id
            THEN [ scope.drawings[i] EXCEPT !.actions = Append(@, newAction) ]
            ELSE scope.drawings[i] ]
    IN  [ scope EXCEPT !.drawings = newDrawings ]

deleteAction(scope, drawing, actionId) ==
    LET newDrawings == [ i \in 1..Len(scope.drawings) |->
            IF scope.drawings[i].id = drawing.id
            THEN [ scope.drawings[i] EXCEPT !.actions = RemoveId(@, actionId) ]
            ELSE scope.drawings[i] ]
    IN  [ scope EXCEPT !.drawings = newDrawings ]

\* flips the first step of the action; percentComplete is left as it was
toggleAbatementAction(scope, drawing, actionId) ==
    LET newDrawings == [ i \in 1..Len(scope.drawings) |->
            LET d == scope.drawings[i] IN
            IF d.id = drawing.id
            THEN [ d EXCEPT !.actions = [ j \in 1..Len(d.actions) |->
                     LET a == d.actions[j] IN
                     IF a.id = actionId
                     THEN [ a EXCEPT !.steps = [ k \in 1..Len(a.steps) |->
                                IF k = 1 THEN ~a.steps[k] ELSE a.steps[k] ] ]
                     ELSE a ] ]
            ELSE d ]
    IN  [ scope EXCEPT !.drawings = newDrawings ]

addNewDrawing(scope, newDrawingId, newActionId) ==
    LET newDrawing == [ id |-> newDrawingId, name |-> "default", imageUrl |-> "",
                        relatedScopeId |-> "null",
                        actions |-> << [ id |-> newActionId, percentComplete |-> 0,
                                         steps |-> << FALSE >>,
                                         imageAttachment |-> NoAttachment ] >> ]
    IN  [ scope EXCEPT !.drawings = Append(@, newDrawing) ]

\* ActionModal.handleSave: action is the prop the modal was opened on,
\* currentAction the modal's edited copy of it
D_ActionModal_handleSave(scope, drawing, action, currentAction, tempImage) ==
    LET percentComplete == calculatePercentFromSteps(currentAction.steps)
        attachmentToPersist == IF tempImage # NoAttachment
                               THEN [ name |-> tempImage.name ]
                               ELSE NoAttachment
        updatedAction == [ currentAction EXCEPT
                             !.percentComplete = percentComplete,
                             !.imageAttachment = attachmentToPersist ]
        newDrawings == [ i \in 1..Len(scope.drawings) |->
            LET d == scope.drawings[i] IN
            IF d.id = drawing.id
            THEN [ d EXCEPT !.actions = [ j \in 1..Len(d.actions) |->
                     IF d.actions[j].id = action.id THEN updatedAction
                     ELSE d.actions[j] ] ]
            ELSE d ]
    IN  [ scope EXCEPT !.drawings = newDrawings ]

\* PrereqModal.handleSave: currentPrereq is the modal's edited copy
D_PrereqModal_handleSave(scope, prereqKey, currentPrereq) ==
    LET percent == calculatePercentFromSteps(currentPrereq.steps)
        updatedStatus ==
            IF ~isStepPrereq(prereqKey) THEN currentPrereq.status
            ELSE IF percent = 100 THEN "Complete"
            ELSE IF percent > 0 THEN "In Progress"
            ELSE "Not Started"
        updatedPrereq == [ currentPrereq EXCEPT !.status = updatedStatus ]
    IN  [ scope EXCEPT !.prereqs = [ scope.prereqs EXCEPT ![prereqKey] = updatedPrereq ] ]

-----------------------------------------------------------------------------
(* User events, parts variant *)

P_Card(c, s, i) ==
    /\ variant = "parts"
    /\ s \in ScopeIds
    /\ PageReady(c, s)
    /\ i \in 1..Len(scopes[c][s].parts)

P_RenamePart(c) ==
    \E s \in ScopeIds, i \in 1..MaxParts, t \in Titles :
        /\ P_Card(c, s, i)
        /\ t # scopes[c][s].parts[i].title
        /\ updateScopeData(c, s, P_handleRename(scopes[c][s], scopes[c][s].parts[i], t))
        /\ submitted' = submitted + 1
        /\ UNCHANGED << frameVars, modal >>

P_DeletePart(c) ==
    \E s \in ScopeIds, i \in 1..MaxParts :
        /\ P_Card(c, s, i)
        /\ updateScopeData(c, s, handleDeletePart(scopes[c][s], scopes[c][s].parts[i]))
        /\ submitted' = submitted + 1
        /\ UNCHANGED << frameVars, modal >>

\* the checkbox of the simplified Lead Abatement list
P_ToggleAction(c) ==
    \E i \in 1..MaxParts, j \in 1..MaxActions :
        LET s == LEAD_ABATEMENT_ID IN
        /\ P_Card(c, s, i)
        /\ j \in 1..Len(scopes[c][s].parts[i].actions)
        /\ updateScopeData(c, s, handleActionToggle(scopes[c][s], scopes[c][s].parts[i],
                                     scopes[c][s].parts[i].actions[j].id))
        /\ submitted' = submitted + 1
        /\ UNCHANGED << frameVars, modal >>

\* a picker list that keeps the page's own scope
otherScopeIdsWithSelf(scope, allScopes) ==
    { id \in DOMAIN allScopes : allScopes[id].type = "scope" }

\* parts variant, ScopePage: the ids offered by the related-scope picker
otherScopeIds(scope, allScopes) ==
    { id \in DOMAIN allScopes : allScopes[id].type = "scope" /\ id # scope.id }

\* the related-scope picker (Lead Abatement cards only): "none" or the id
\* of another scope of type 'scope'
P_ChangeRelatedScope(c) ==
    \E i \in 1..MaxParts, r \in {"none"} \cup CatalogIds :
        LET s == LEAD_ABATEMENT_ID IN
        /\ P_Card(c, s, i)
        /\ r \in {"none"} \cup otherScopeIds(scopes[c][s], scopes[c])
        /\ r # scopes[c][s].parts[i].relatedScopeId
        /\ updateScopeData(c, s, P_handleRelatedScopeChange(scopes[c][s],
                                     scopes[c][s].parts[i], r))
        /\ submitted' = submitted + 1
        /\ UNCHANGED << frameVars, modal >>

P_AddAction(c) ==
    \E s \in ScopeIds, i \in 1..MaxParts :
        /\ P_Card(c, s, i)
        /\ Len(scopes[c][s].parts[i].actions) < MaxActions
        /\ updateScopeData(c, s, handleAddAction(scopes[c][s], scopes[c][s].parts[i],
                                     100 + submitted))
        /\ submitted' = submitted + 1
        /\ UNCHANGED << frameVars, modal >>

P_DeleteAction(c) ==
    \E s \in ScopeIds, i \in 1..MaxParts, j \in 1..MaxActions :
        /\ P_Card(c, s, i)
        /\ j \in 1..Len(scopes[c][s].parts[i].actions)
        /\ updateScopeData(c, s, handleDeleteAction(scopes[c][s], scopes[c][s].parts[i],
                                     scopes[c][s].parts[i].actions[j].id))
        /\ submitted' = submitted + 1
        /\ UNCHANGED << frameVars, modal >>

P_AddPart(c) ==
    \E s \in ScopeIds :
        /\ variant = "parts"
        /\ PageReady(c, s)
        /\ Len(scopes[c][s].parts) < MaxParts
        /\ updateScopeData(c, s, handleAddPart(scopes[c][s], 100 + submitted))
        /\ submitted' = submitted + 1
        /\ UNCHANGED << frameVars, modal >>

\* handleActionClick on a standard scope opens the action modal
P_OpenActionModal(c) ==
    \E i \in 1..MaxParts, j \in 1..MaxActions :
        LET s == OtherScopeId IN
        /\ P_Card(c, s, i)
        /\ j \in 1..Len(scopes[c][s].parts[i].actions)
        /\ LET a == scopes[c][s].parts[i].actions[j] IN
           modal' = [ modal EXCEPT ![c] =
                        [ kind |-> "action", scopeId |-> s,
                          partId |-> scopes[c][s].parts[i].id,
                          action |-> a, steps |-> a.steps,
                          image |-> NoAttachment ] ]
        /\ UNCHANGED << frameVars, writes, snapPending, submitted >>

\* "Track Steps" on a standard scope opens the prerequisite modal
P_OpenPrereqModal(c) ==
    \E key \in MapFields :
        LET s == OtherScopeId IN
        /\ variant = "parts"
        /\ PageReady(c, s)
        /\ modal' = [ modal EXCEPT ![c] =
                        [ kind |-> "prereq", scopeId |-> s, key |-> key,
                          steps |-> scopes[c][s][key].steps ] ]
        /\ UNCHANGED << frameVars, writes, snapPending, submitted >>

PartById(parts, id) == parts[CHOOSE i \in 1..Len(parts) : parts[i].id = id]

P_SaveActionModal(c) ==
    LET m == modal[c] IN
    /\ variant = "parts"
    /\ m.kind = "action"
    /\ Len(writes[c]) < MaxPending
    /\ submitted < MaxSubmitted
    /\ updateScopeData(c, m.scopeId,
           P_ActionModal_handleSave(scopes[c][m.scopeId],
               PartById(scopes[c][m.scopeId].parts, m.partId), m.action, m.steps,
               m.image))
    /\ modal' = [ modal EXCEPT ![c] = NoModal ]
    /\ submitted' = submitted + 1
    /\ UNCHANGED << frameVars >>

P_SavePrereqModal(c) ==
    LET m == modal[c] IN
    /\ variant = "parts"
    /\ m.kind = "prereq"
    /\ Len(writes[c]) < MaxPending
    /\ submitted < MaxSubmitted
    /\ updateScopeData(c, m.scopeId,
           P_PrereqModal_handleSave(scopes[c][m.scopeId], m.key, m.steps))
    /\ modal' = [ modal EXCEPT ![c] = NoModal ]
    /\ submitted' = submitted + 1
    /\ UNCHANGED << frameVars >>

(* Modal form events, both variants and both modals *)

ModalToggleStep(c) ==
    \E k \in 1..MaxSteps :
        /\ modal[c].kind # "none"
        /\ k \in 1..Len(modal[c].steps)
        /\ modal' = [ modal EXCEPT ![c].steps[k] = ~@ ]
        /\ UNCHANGED << frameVars, writes, snapPending, submitted >>

ModalAddStep(c) ==
    /\ modal[c].kind # "none"
    /\ Len(modal[c].steps) < MaxSteps
    /\ modal' = [ modal EXCEPT ![c].steps = Append(@, FALSE) ]
    /\ UNCHANGED << frameVars, writes, snapPending, submitted >>

ModalDeleteStep(c) ==
    \E k \in 1..MaxSteps :
        /\ modal[c].kind # "none"
        /\ k \in 1..Len(modal[c].steps)
        /\ modal' = [ modal EXCEPT ![c].steps =
                        SelectIdx(@, (1..Len(@)) \ {k}, 1) ]
        /\ UNCHANGED << frameVars, writes, snapPending, submitted >>

\* onClose without saving
ModalClose(c) ==
    /\ modal[c].kind # "none"
    /\ modal' = [ modal EXCEPT ![c] = NoModal ]
    /\ UNCHANGED << frameVars, writes, snapPending, submitted >>

-----------------------------------------------------------------------------
(* User events, drawings variant *)

D_Card(c, s, i) ==
    /\ variant = "drawings"
    /\ s \in ScopeIds
    /\ PageReady(c, s)
    /\ i \in 1..Len(scopes[c][s].drawings)

D_RenameDrawing(c) ==
    \E s \in ScopeIds, i \in 1..MaxParts, t \in Titles :
        /\ D_Card(c, s, i)
        /\ t # scopes[c][s].drawings[i].name
        /\ updateScopeData(c, s, D_handleRename(scopes[c][s], scopes[c][s].drawings[i], t))
        /\ submitted' = submitted + 1
        /\ UNCHANGED << frameVars, modal >>

\* the related-scope picker (Lead Abatement cards only): the ids of
\* OTHER_SCOPES; the "N/A" option is disabled
D_ChangeRelatedScope(c) ==
    \E i \in 1..MaxParts, r \in OTHER_SCOPES :
        LET s == LEAD_ABATEMENT_ID IN
        /\ D_Card(c, s, i)
        /\ r # scopes[c][s].drawings[i].relatedScopeId
        /\ updateScopeData(c, s, D_handleRelatedScopeChange(scopes[c][s],
                                     scopes[c][s].drawings[i], r))
        /\ submitted' = submitted + 1
        /\ UNCHANGED << frameVars, modal >>

D_AddAction(c) ==
    \E s \in ScopeIds, i \in 1..MaxParts :
        /\ D_Card(c, s, i)
        /\ Len(scopes[c][s].drawings[i].actions) < MaxActions
        /\ updateScopeData(c, s, addAction(scopes[c][s], scopes[c][s].drawings[i],
                                     100 + submitted))
        /\ submitted' = submitted + 1
        /\ UNCHANGED << frameVars, modal >>

D_DeleteAction(c) ==
    \E s \in ScopeIds, i \in 1..MaxParts, j \in 1..MaxActions :
        /\ D_Card(c, s, i)
        /\ j \in 1..Len(scopes[c][s].drawings[i].actions)
        /\ updateScopeData(c, s, deleteAction(scopes[c][s], scopes[c][s].drawings[i],
                                     scopes[c][s].drawings[i].actions[j].id))
        /\ submitted' = submitted + 1
        /\ UNCHANGED << frameVars, modal >>

D_ToggleAbatementAction(c) ==
    \E i \in 1..MaxParts, j \in 1..MaxActions :
        LET s == LEAD_ABATEMENT_ID IN
        /\ D_Card(c, s, i)
        /\ j \in 1..Len(scopes[c][s].drawings[i].actions)
        /\ updateScopeData(c, s, toggleAbatementAction(scopes[c][s],
                                     scopes[c][s].drawings[i],
                                     scopes[c][s].drawings[i].actions[j].id))
        /\ submitted' = submitted + 1
        /\ UNCHANGED << frameVars, modal >>

D_AddNewDrawing(c) ==
    \E s \in ScopeIds :
        /\ variant = "drawings"
        /\ PageReady(c, s)
        /\ Len(scopes[c][s].drawings) < MaxParts
        /\ updateScopeData(c, s, addNewDrawing(scopes[c][s], 100 + submitted, 200 + submitted))
        /\ submitted' = submitted + 1
        /\ UNCHANGED << frameVars, modal >>

D_OpenActionModal(c) ==
    \E i \in 1..MaxParts, j \in 1..MaxActions :
        LET s == OtherScopeId IN
        /\ D_Card(c, s, i)
        /\ j \in 1..Len(scopes[c][s].drawings[i].actions)
        /\ LET a == scopes[c][s].drawings[i].actions[j] IN
           modal' = [ modal EXCEPT ![c] =
                        [ kind |-> "action", scopeId |-> s,
                          partId |-> scopes[c][s].drawings[i].id,
                          action |-> a, steps |-> a.steps,
                          image |-> a.imageAttachment ] ]
        /\ UNCHANGED << frameVars, writes, snapPending, submitted >>

\* a step-tracked row of PrereqSection opens the prerequisite modal
D_OpenPrereqModal(c) ==
    \E key \in {"materials", "generalPrereqs"} :
        LET s == OtherScopeId IN
        /\ variant = "drawings"
        /\ PageReady(c, s)
        /\ modal' = [ modal EXCEPT ![c] =
                        [ kind |-> "prereq", scopeId |-> s, key |-> key,
                          data |-> scopes[c][s].prereqs[key],
                          steps |-> scopes[c][s].prereqs[key].steps ] ]
        /\ UNCHANGED << frameVars, writes, snapPending, submitted >>

D_SaveActionModal(c) ==
    LET m == modal[c] IN
    /\ variant = "drawings"
    /\ m.kind = "action"
    /\ Len(writes[c]) < MaxPending
    /\ submitted < MaxSubmitted
    /\ updateScopeData(c, m.scopeId,
           D_ActionModal_handleSave(scopes[c][m.scopeId],
               PartById(scopes[c][m.scopeId].drawings, m.partId), m.action,
               [ m.action EXCEPT !.steps = m.steps ], m.image))
    /\ modal' = [ modal EXCEPT ![c] = NoModal ]
    /\ submitted' = submitted + 1
    /\ UNCHANGED << frameVars >>

D_SavePrereqModal(c) ==
    LET m == modal[c] IN
    /\ variant = "drawings"
    /\ m.kind = "prereq"
    /\ Len(writes[c]) < MaxPending
    /\ submitted < MaxSubmitted
    /\ updateScopeData(c, m.scopeId,
           D_PrereqModal_handleSave(scopes[c][m.scopeId], m.key,
               [ m.data EXCEPT !.steps = m.steps ]))
    /\ modal' = [ modal EXCEPT ![c] = NoModal ]
    /\ submitted' = submitted + 1
    /\ UNCHANGED << frameVars >>

-----------------------------------------------------------------------------
(* Specifications *)

Startup(c) ==
    \/ P_Start(c)
    \/ P_AuthStateNoUser(c)
    \/ P_SignInOk(c)
    \/ P_SignInFails(c)
    \/ D_Start(c)
    \/ D_AuthStateNoUser(c)
    \/ D_SignInOk(c)
    \/ D_SignInFails(c)

Sync(c) ==
    \/ DeliverSnapshot(c)
    \/ ApplyWrite(c)

Faults(c) ==
    \/ SubscriptionFails(c)
    \/ FailWrite(c)

PartMutations(c) ==
    \/ P_RenamePart(c)
    \/ P_DeletePart(c)
    \/ P_ToggleAction(c)
    \/ P_ChangeRelatedScope(c)
    \/ P_AddAction(c)
    \/ P_DeleteAction(c)
    \/ P_AddPart(c)
    \/ D_RenameDrawing(c)
    \/ D_ChangeRelatedScope(c)
    \/ D_AddAction(c)
    \/ D_DeleteAction(c)
    \/ D_ToggleAbatementAction(c)
    \/ D_AddNewDrawing(c)

ModalEvents(c) ==
    \/ ModalToggleStep(c)
    \/ ModalAddStep(c)
    \/ ModalDeleteStep(c)
    \/ ModalClose(c)

ActionModalEvents(c) ==
    \/ P_OpenActionModal(c)
    \/ P_SaveActionModal(c)
    \/ D_OpenActionModal(c)
    \/ D_SaveActionModal(c)

PrereqModalEvents(c) ==
    \/ P_OpenPrereqModal(c)
    \/ P_SavePrereqModal(c)
    \/ D_OpenPrereqModal(c)
    \/ D_SavePrereqModal(c)

Next ==
    \E c \in Clients :
        \/ Startup(c)
        \/ Sync(c)
        \/ Faults(c)
        \/ PartMutations(c)
        \/ ModalEvents(c)
        \/ ActionModalEvents(c)
        \/ PrereqModalEvents(c)

Spec == Init /\ [][Next]_vars

\* One client editing parts, drawings and actions: the derivation rules.
DeriveNext ==
    \E c \in {"c1"} :
        \/ Startup(c)
        \/ Sync(c)
        \/ PartMutations(c)
        \/ ModalEvents(c)
        \/ ActionModalEvents(c)

DeriveSpec == Init /\ [][DeriveNext]_vars

\* One client editing the step-tracked prerequisites of a standard scope.
PrereqNext ==
    \E c \in {"c1"} :
        \/ Startup(c)
        \/ Sync(c)
        \/ ModalEvents(c)
        \/ PrereqModalEvents(c)

PrereqSpec == Init /\ [][PrereqNext]_vars

\* Two clients editing through one store: the sync contract without failures.
SyncNext ==
    \E c \in Clients :
        \/ Startup(c)
        \/ Sync(c)
        \/ (submitted < MaxConcurrent /\ P_RenamePart(c))
        \/ (submitted < MaxConcurrent /\ D_RenameDrawing(c))

SyncSpec == Init /\ [][SyncNext]_vars

\* Two clients and a store that may reject listeners and writes.
FaultNext ==
    \E c \in Clients :
        \/ Startup(c)
        \/ Sync(c)
        \/ Faults(c)
        \/ (submitted < MaxFaulty /\ P_RenamePart(c))
        \/ (submitted < MaxFaulty /\ D_RenameDrawing(c))

FaultSpec == Init /\ [][FaultNext]_vars

MaxSaves == 2

\* One client working in the two modals of a standard scope.
ModalNext ==
    \E c \in {"c1"} :
        \/ Startup(c)
        \/ Sync(c)
        \/ ModalEvents(c)
        \/ (submitted < MaxSaves /\ ActionModalEvents(c))
        \/ (submitted < MaxSaves /\ PrereqModalEvents(c))

ModalSpec == Init /\ [][ModalNext]_vars

\* Two clients starting up against a store and an identity provider that may
\* reject, with no user input.  The store rejects a seeding batch only while
\* another one can still be built (seeding is capped by MaxSeeds).
LiveNext ==
    \E c \in Clients :
        \/ Startup(c)
        \/ Sync(c)
        \/ SubscriptionFails(c)
        \/ (seeded < MaxSeeds /\ FailWrite(c))

\* Fairness: a client's startup effects run, the identity provider answers a
\* sign-in (resolving or rejecting it), the listener's callback runs when a
\* snapshot is due, and the store settles a pending write (applying or
\* rejecting it).  Rejections themselves are never forced.
Fairness ==
    \A c \in Clients :
        /\ WF_vars(Startup(c))
        /\ WF_vars(DeliverSnapshot(c))
        /\ WF_vars(ApplyWrite(c) \/ (seeded < MaxSeeds /\ FailWrite(c)))

LiveSpec == Init /\ [][LiveNext]_vars /\ Fairness

-----------------------------------------------------------------------------
(* Images: the upload handlers of the cards and of the action modal *)

\* the data URL a FileReader hands to its onload callback
UploadedImage == [ name |-> "file", dataURL |-> "bytes" ]

imageVars == << variant, store, config, crashed, db, userId, isAuthReady,
               signIn, error, isLoading, scopes, subscribed, snapPending, writes,
               seeded, submitted, seedCommits, lastApplied, prevApplied, arg, res >>

\* parts variant, DrawingCard.handleImageUpload: setLocalImageUrl only
P_CardImageUpload(c) ==
    \E i \in 1..MaxParts :
        LET s == OtherScopeId IN
        /\ P_Card(c, s, i)
        /\ << s, scopes[c][s].parts[i].id >> \notin localImageUrl[c]
        /\ localImageUrl' = [ localImageUrl EXCEPT
                                ![c] = @ \cup { << s, scopes[c][s].parts[i].id >> } ]
        /\ UNCHANGED << imageVars, modal >>

\* drawings variant, DrawingCard.handleImageUpload: setLocalImageUrl only
D_CardImageUpload(c) ==
    \E i \in 1..MaxParts :
        LET s == OtherScopeId IN
        /\ D_Card(c, s, i)
        /\ << s, scopes[c][s].drawings[i].id >> \notin localImageUrl[c]
        /\ localImageUrl' = [ localImageUrl EXCEPT
                                ![c] = @ \cup { << s, scopes[c][s].drawings[i].id >> } ]
        /\ UNCHANGED << imageVars, modal >>

\* parts variant, ActionModal.handleImageUpload: setDataURL(reader.result)
P_ModalImageUpload(c) ==
    /\ variant = "parts"
    /\ modal[c].kind = "action"
    /\ modal[c].image = NoAttachment
    /\ modal' = [ modal EXCEPT ![c].image = [ dataURL |-> "bytes" ] ]
    /\ UNCHANGED << imageVars, localImageUrl >>

\* drawings variant, ActionModal.handleImageUpload: setTempImage({name, dataURL})
D_ModalImageUpload(c) ==
    /\ variant = "drawings"
    /\ modal[c].kind = "action"
    /\ modal[c].image # UploadedImage
    /\ modal' = [ modal EXCEPT ![c].image = UploadedImage ]
    /\ UNCHANGED << imageVars, localImageUrl >>

ImageEvents(c) ==
    \/ P_CardImageUpload(c)
    \/ D_CardImageUpload(c)
    \/ P_ModalImageUpload(c)
    \/ D_ModalImageUpload(c)

\* One client attaching images to cards and actions.
ImageNext ==
    \E c \in {"c1"} :
        \/ Startup(c)
        \/ Sync(c)
        \/ P_AddAction(c)
        \/ ModalClose(c)
        \/ ActionModalEvents(c)
        \/ ImageEvents(c)

ImageSpec == Init /\ [][ImageNext]_vars

-----------------------------------------------------------------------------
(* Properties: derived percentages *)

\* the documents handed to updateScopeData and not yet applied by the store
Submitted == { w \in UNION { { writes[c][i] : i \in 1..Len(writes[c]) } : c \in Clients } :
                 w.kind = "set" }

StepPercent(steps) ==
    IF steps = << >> THEN 0 ELSE Round(100 * CountTrue(steps), Len(steps))

MeanPercent(actions) ==
    IF actions = << >> THEN 0
    ELSE Round(SumSeq([ j \in 1..Len(actions) |-> actions[j].percentComplete ]),
               Len(actions))

\* C1: in the parts variant every document submitted to updateScopeData has,
\* for each action, percentComplete equal to the rounded share of its
\* completed steps, and for each part, percentComplete equal to the rounded
\* mean of its actions' percentComplete (0 when there is none).
C1_SubmittedPercentagesDerived ==
    variant = "parts" =>
        \A w \in Submitted :
            \A i \in 1..Len(w.data.parts) :
                LET part == w.data.parts[i] IN
                /\ part.percentComplete = MeanPercent(part.actions)
                /\ \A j \in 1..Len(part.actions) :
                       part.actions[j].percentComplete = StepPercent(part.actions[j].steps)

\* a submitted parts document with a part whose two actions differ in
\* completion, so that the part's percentage is a proper mean
C1_Witness ==
    /\ variant = "parts"
    /\ \E w \in Submitted : \E i \in 1..Len(w.data.parts) :
           /\ Len(w.data.parts[i].actions) = 2
           /\ w.data.parts[i].actions[1].percentComplete
                # w.data.parts[i].actions[2].percentComplete
           /\ w.data.parts[i].percentComplete = 50

\* C2: in the drawings variant every document submitted to updateScopeData
\* has, for each action, percentComplete equal to the rounded share of its
\* completed steps (0 with no steps).
C2_SubmittedActionPercentDerived ==
    variant = "drawings" =>
        \A w \in Submitted :
            \A i \in 1..Len(w.data.drawings) :
                \A j \in 1..Len(w.data.drawings[i].actions) :
                    LET a == w.data.drawings[i].actions[j] IN
                    a.percentComplete = StepPercent(a.steps)

-----------------------------------------------------------------------------
(* The status dropdowns of the prerequisite rows *)

\* parts variant, the rows ScopePage renders for a standard scope
P_PrereqRows ==
    { [ key |-> "prereqStatusMaterials", isStepPrereq |-> TRUE, isReadOnly |-> FALSE ],
      [ key |-> "prereqStatusGeneral", isStepPrereq |-> TRUE, isReadOnly |-> FALSE ],
      [ key |-> "prereqStatusLeadAbatement", isStepPrereq |-> FALSE, isReadOnly |-> TRUE ] }

\* parts variant: the row of key renders a status dropdown
P_DropdownRendered(key) ==
    \E r \in P_PrereqRows : r.key = key /\ ~r.isReadOnly /\ ~r.isStepPrereq

\* parts variant, ScopePage.handlePrereqDropdownChange: the submitted document
handlePrereqDropdownChange(scope, key, value) ==
    IF key = "prereqStatusLeadAbatement" /\ scope.id # LEAD_ABATEMENT_ID
    THEN scope
    ELSE [ scope EXCEPT ![key] = value ]

\* drawings variant: the row of key on the page of scopeId renders a select
\* (not the read-only badge) and the select is not disabled
D_StatusSelectEnabled(scopeId, key) ==
    LET isTrackableItem == isStepPrereq(key)
        isExternalLeadAbatement == key = "leadAbatement" /\ scopeId # LEAD_ABATEMENT_ID
    IN  ~isExternalLeadAbatement /\ ~isTrackableItem

\* drawings variant, PrereqSection.handleStatusChange: the submitted document
handleStatusChange(scope, key, newStatus) ==
    IF key = "leadAbatement" THEN scope
    ELSE [ scope EXCEPT !.prereqs =
             [ scope.prereqs EXCEPT ![key] =
                 IF isStepPrereq(key) THEN [ scope.prereqs[key] EXCEPT !.status = newStatus ]
                 ELSE newStatus ] ]

-----------------------------------------------------------------------------
(* Properties: step-tracked prerequisites *)

StatusOfPercent(p) ==
    IF p = 100 THEN "Complete" ELSE IF p = 0 THEN "Not Started" ELSE "In Progress"

\* the step-tracked prerequisites of a document of either variant
StepTracked(doc) ==
    IF variant = "parts"
    THEN { doc[k] : k \in MapFields }
    ELSE { doc.prereqs[k] : k \in {"materials", "generalPrereqs"} }

StatusDerived(doc) ==
    \A pre \in StepTracked(doc) : pre.status = StatusOfPercent(StepPercent(pre.steps))

\* C3: for every scope other than Lead Abatement, the status stored (and the
\* status submitted) for each step-tracked prerequisite is the label of the
\* completion of the steps stored with it, and no status dropdown can be
\* operated on a step-tracked key.
C3_StepPrereqStatusDerived ==
    /\ \A s \in DOMAIN store \cap (ScopeIds \ {LEAD_ABATEMENT_ID}) : StatusDerived(store[s])
    /\ \A w \in Submitted : w.id # LEAD_ABATEMENT_ID => StatusDerived(w.data)
    /\ \A k \in MapFields : ~P_DropdownRendered(k)
    /\ \A k \in {"materials", "generalPrereqs"} : ~D_StatusSelectEnabled(OtherScopeId, k)

\* the store holds a standard scope whose prerequisite was saved from the
\* modal with some but not all of three steps complete
C3_Witness ==
    \E s \in DOMAIN store \cap (ScopeIds \ {LEAD_ABATEMENT_ID}) :
        /\ lastApplied.kind = "set" /\ lastApplied.id = s
        /\ \E pre \in StepTracked(store[s]) :
               /\ Len(pre.steps) = 3
               /\ CountTrue(pre.steps) \in {1, 2}
               /\ pre.status = "In Progress"

-----------------------------------------------------------------------------
(* Properties: concurrent writers *)

SetApplied(c) == writes[c] # << >> /\ Head(writes[c]).kind = "set" /\ ApplyWrite(c)

\* C4: whenever the store applies a setDoc -- in particular one whose author
\* worked from a snapshot that another client's write has since overtaken --
\* the stored document becomes exactly the submitted document, nothing of
\* the overtaken state is merged in, and no client's error state changes.
C4_LastWriteWins ==
    [][ \A c \in Clients :
          SetApplied(c) =>
              /\ store'[Head(writes[c]).id] = Head(writes[c]).data
              /\ error' = error ]_vars

\* two clients edited the same document from the same snapshot; both writes
\* were applied, the store holds the later one and no error is set
C4_Witness ==
    /\ lastApplied.kind = "set" /\ prevApplied.kind = "set"
    /\ lastApplied.by # prevApplied.by
    /\ lastApplied.id = prevApplied.id
    /\ lastApplied.base = prevApplied.base
    /\ lastApplied.data # prevApplied.data
    /\ lastApplied.conflict
    /\ store[lastApplied.id] = lastApplied.data
    /\ \A c \in Clients : error[c] = "none"

\* C5: a setDoc on one scope leaves every other stored document as it was,
\* so when two clients' writes to two different scopes have both been
\* applied the store holds both submitted documents.
C5_ScopesIndependent ==
    /\ [][ \A c \in Clients :
             SetApplied(c) =>
                 \A s \in DOMAIN store \ {Head(writes[c]).id} :
                     s \in DOMAIN store' /\ store'[s] = store[s] ]_vars
    /\ []( ( lastApplied.kind = "set" /\ prevApplied.kind = "set"
             /\ lastApplied.id # prevApplied.id )
           => ( store[lastApplied.id] = lastApplied.data
                /\ store[prevApplied.id] = prevApplied.data ) )

\* two clients had writes to two different scopes in flight at once and both
\* have been applied
C5_Witness ==
    /\ lastApplied.kind = "set" /\ prevApplied.kind = "set"
    /\ lastApplied.by # prevApplied.by
    /\ lastApplied.id # prevApplied.id
    /\ prevApplied.overlap
    /\ store[lastApplied.id] = lastApplied.data
    /\ store[prevApplied.id] = prevApplied.data
    /\ store[prevApplied.id] # prevApplied.base

-----------------------------------------------------------------------------
(* Properties: seeding, startup and failures *)

\* C6: the default documents are committed at most once, and a seeding
\* batch is applied only to a store that holds no document, so it never
\* replaces a stored scope document.
C6_SeededOnceIntoEmptyStore ==
    /\ seedCommits <= 1
    /\ lastApplied.kind = "batch" => ~lastApplied.conflict

\* C7: in the parts variant the snapshot listener is attached only once a
\* custom-token or anonymous sign-in has succeeded.
C7_SubscribedAfterSignIn ==
    variant = "parts" => \A c \in Clients : subscribed[c] => signIn[c] = "done"

StoreErrors == {"snapshot", "seed", "write"}

\* C8: once a subscription, write or seeding failure has set the error, the
\* error stays set, the client shows the error view and no scope page, and
\* the client hands no further write or seeding batch to the store.
C8_StoreErrorSticky ==
    [][ \A c \in Clients :
          error[c] \in StoreErrors =>
              /\ error'[c] # "none"
              /\ ErrorView(c)' /\ ~Rendered(c)'
              /\ Len(writes'[c]) <= Len(writes[c]) ]_vars

BadConfigs == {"missing", "unparseable", "incomplete"}

\* C9: a client started with a missing or malformed configuration has its
\* error set, never gets a store handle, never subscribes and never hands a
\* write or a seeding batch to the store.
C9_BadConfigIsFatal ==
    \A c \in Clients :
        config[c] \in BadConfigs =>
            /\ error[c] # "none"
            /\ ~db[c]
            /\ ~subscribed[c]
            /\ writes[c] = << >>

-----------------------------------------------------------------------------
(* The cross-scope linker and the Lead Abatement row of a standard scope *)

\* steps of all actions of the parts at the indices idx: how many, how many complete
StepsOf(items, idx) ==
    SumSeq([ i \in 1..Len(items) |->
               IF i \in idx
               THEN SumSeq([ j \in 1..Len(items[i].actions) |->
                               Len(items[i].actions[j].steps) ])
               ELSE 0 ])

CompletedStepsOf(items, idx) ==
    SumSeq([ i \in 1..Len(items) |->
               IF i \in idx
               THEN SumSeq([ j \in 1..Len(items[i].actions) |->
                               CountTrue(items[i].actions[j].steps) ])
               ELSE 0 ])

\* a linker that sums the steps of every Lead Abatement part, linked or not
P_getLeadAbatementProgressUnfiltered(scopeId, allScopes) ==
    IF LEAD_ABATEMENT_ID \notin DOMAIN allScopes
       \/ "parts" \notin DOMAIN allScopes[LEAD_ABATEMENT_ID]
    THEN [ percent |-> 0, count |-> 0 ]
    ELSE LET parts == allScopes[LEAD_ABATEMENT_ID].parts
             linkedParts == { i \in 1..Len(parts) : parts[i].relatedScopeId = scopeId }
             totalSteps == StepsOf(parts, 1..Len(parts))
             completedSteps == CompletedStepsOf(parts, 1..Len(parts))
         IN  IF linkedParts = {}
             THEN [ percent |-> 0, count |-> 0, isLinked |-> FALSE ]
             ELSE [ percent |-> IF totalSteps = 0 THEN 0
                                ELSE Round(completedSteps * 100, totalSteps),
                    count |-> Cardinality(linkedParts), isLinked |-> TRUE ]

\* parts variant; allScopes is the scopes array, here keyed by id.  The first
\* return carries no isLinked field.
P_getLeadAbatementProgressForScope(scopeId, allScopes) ==
    IF LEAD_ABATEMENT_ID \notin DOMAIN allScopes
       \/ "parts" \notin DOMAIN allScopes[LEAD_ABATEMENT_ID]
    THEN [ percent |-> 0, count |-> 0 ]
    ELSE LET parts == allScopes[LEAD_ABATEMENT_ID].parts
             linkedParts == { i \in 1..Len(parts) : parts[i].relatedScopeId = scopeId }
             totalSteps == StepsOf(parts, linkedParts)
             completedSteps == CompletedStepsOf(parts, linkedParts)
         IN  IF linkedParts = {}
             THEN [ percent |-> 0, count |-> 0, isLinked |-> FALSE ]
             ELSE [ percent |-> IF totalSteps = 0 THEN 0
                                ELSE Round(completedSteps * 100, totalSteps),
                    count |-> Cardinality(linkedParts), isLinked |-> TRUE ]

\* parts variant, ScopePage: the leadAbatementProgress memo and the text of
\* the read-only Lead Abatement badge
P_statusDisplay(scopeId, allScopes) ==
    LET nonSummaryScopes == [ id \in { i \in DOMAIN allScopes : allScopes[i].type = "scope" }
                                |-> allScopes[id] ]
        progress == IF scopeId = LEAD_ABATEMENT_ID
                    THEN [ percent |-> 100, isLinked |-> TRUE ]
                    ELSE P_getLeadAbatementProgressForScope(scopeId, nonSummaryScopes)
        isLinked == "isLinked" \in DOMAIN progress /\ progress.isLinked
        currentStatus == getStatusLabel(progress.percent)
    IN  IF ~isLinked THEN "N/A" ELSE currentStatus

\* a linker that averages the percentComplete of the linked drawings' actions
D_getLeadAbatementProgressByActionMean(allScopes, targetScopeId) ==
    IF LEAD_ABATEMENT_ID \notin DOMAIN allScopes
       \/ "drawings" \notin DOMAIN allScopes[LEAD_ABATEMENT_ID]
    THEN [ percent |-> 0, totalSteps |-> 0, completedSteps |-> 0, linkedItemsCount |-> 0 ]
    ELSE LET drawings == allScopes[LEAD_ABATEMENT_ID].drawings
             relevantDrawings == { i \in 1..Len(drawings) :
                                     drawings[i].relatedScopeId = targetScopeId }
             nActions == SumSeq([ i \in 1..Len(drawings) |->
                            IF i \in relevantDrawings THEN Len(drawings[i].actions) ELSE 0 ])
             sumPercent == SumSeq([ i \in 1..Len(drawings) |->
                            IF i \in relevantDrawings
                            THEN SumSeq([ j \in 1..Len(drawings[i].actions) |->
                                     calculatePercentFromSteps(drawings[i].actions[j].steps) ])
                            ELSE 0 ])
         IN  [ percent |-> IF nActions > 0 THEN Round(sumPercent, nActions) ELSE 0,
               totalSteps |-> StepsOf(drawings, relevantDrawings),
               completedSteps |-> CompletedStepsOf(drawings, relevantDrawings),
               linkedItemsCount |-> Cardinality(relevantDrawings) ]

\* drawings variant
D_getLeadAbatementProgressForScope(allScopes, targetScopeId) ==
    IF LEAD_ABATEMENT_ID \notin DOMAIN allScopes
       \/ "drawings" \notin DOMAIN allScopes[LEAD_ABATEMENT_ID]
    THEN [ percent |-> 0, totalSteps |-> 0, completedSteps |-> 0, linkedItemsCount |-> 0 ]
    ELSE LET drawings == allScopes[LEAD_ABATEMENT_ID].drawings
             relevantDrawings == { i \in 1..Len(drawings) :
                                     drawings[i].relatedScopeId = targetScopeId }
             totalSteps == StepsOf(drawings, relevantDrawings)
             completedSteps == CompletedStepsOf(drawings, relevantDrawings)
         IN  IF relevantDrawings = {}
             THEN [ percent |-> 0, totalSteps |-> 0, completedSteps |-> 0,
                    linkedItemsCount |-> 0 ]
             ELSE [ percent |-> IF totalSteps > 0
                                THEN Round(completedSteps * 100, totalSteps) ELSE 0,
                    totalSteps |-> totalSteps, completedSteps |-> completedSteps,
                    linkedItemsCount |-> Cardinality(relevantDrawings) ]

\* a display status that labels by percent alone
getDisplayStatusByPercent(scopeId, allScopes) ==
    LET progress == D_getLeadAbatementProgressForScope(allScopes, scopeId)
    IN  IF progress.percent = 100 THEN "Complete"
        ELSE IF progress.percent > 0 THEN "In Progress"
        ELSE "Not Started"

\* a display status that shows the status stored in the scope's own document
getDisplayStatusStored(scopeId, allScopes) ==
    IF scopeId \in DOMAIN allScopes
    THEN allScopes[scopeId].prereqs.leadAbatement.status
    ELSE "N/A"

\* drawings variant, PrereqSection.getDisplayStatus for key leadAbatement on
\* the page of a scope other than Lead Abatement
getDisplayStatus(scopeId, allScopes) ==
    LET progress == D_getLeadAbatementProgressForScope(allScopes, scopeId)
    IN  IF progress.linkedItemsCount = 0 THEN "N/A"
        ELSE IF progress.percent = 100 THEN "Complete"
        ELSE IF progress.percent > 0 THEN "In Progress"
        ELSE "Not Started"

-----------------------------------------------------------------------------
(* Properties: the linked Lead Abatement status *)

\* the Lead Abatement items of all, as the variant stores them
AbatementItems(all) ==
    IF LEAD_ABATEMENT_ID \notin DOMAIN all THEN << >>
    ELSE IF variant = "parts" THEN all[LEAD_ABATEMENT_ID].parts
    ELSE all[LEAD_ABATEMENT_ID].drawings

LinkedTo(all, X) ==
    { i \in 1..Len(AbatementItems(all)) : AbatementItems(all)[i].relatedScopeId = X }

NoStepComplete(all, X) ==
    \A i \in LinkedTo(all, X) :
        \A j \in 1..Len(AbatementItems(all)[i].actions) :
            CountTrue(AbatementItems(all)[i].actions[j].steps) = 0

LinkerCount(all, X) ==
    IF variant = "parts" THEN P_getLeadAbatementProgressForScope(X, all).count
    ELSE D_getLeadAbatementProgressForScope(all, X).linkedItemsCount

LinkerPercent(all, X) ==
    IF variant = "parts" THEN P_getLeadAbatementProgressForScope(X, all).percent
    ELSE D_getLeadAbatementProgressForScope(all, X).percent

LinkedLabel(all, X) ==
    IF variant = "parts" THEN P_statusDisplay(X, all) ELSE getDisplayStatus(X, all)

\* the scopes a client holds, and the same without the Lead Abatement document
ScopesSeen(c) ==
    { scopes[c], [ id \in DOMAIN scopes[c] \ {LEAD_ABATEMENT_ID} |-> scopes[c][id] ] }

\* C10: for a scope X other than Lead Abatement, when no Lead Abatement part
\* references X (or there is no Lead Abatement document) the linker reports
\* count 0 and percent 0 and the row shows N/A; when a part references X and
\* none of the linked steps is complete the row shows Not Started.
C10_UnlinkedIsNotApplicable ==
    \A c \in Clients : \A all \in ScopesSeen(c) :
        \A X \in DOMAIN all \cap (ScopeIds \ {LEAD_ABATEMENT_ID}) :
            /\ LinkedTo(all, X) = {} =>
                   /\ LinkerCount(all, X) = 0
                   /\ LinkerPercent(all, X) = 0
                   /\ LinkedLabel(all, X) = "N/A"
            /\ (LinkedTo(all, X) # {} /\ NoStepComplete(all, X)) =>
                   LinkedLabel(all, X) = "Not Started"

\* a client holds a Lead Abatement part linked to the other scope, with an
\* action whose steps are all open; without the Lead Abatement document the
\* same scope has nothing linked
C10_Witness ==
    \E c \in Clients :
        /\ OtherScopeId \in DOMAIN scopes[c]
        /\ \E i \in LinkedTo(scopes[c], OtherScopeId) :
               AbatementItems(scopes[c])[i].actions # << >>
        /\ NoStepComplete(scopes[c], OtherScopeId)
        /\ LinkedLabel(scopes[c], OtherScopeId) = "Not Started"
        /\ \E all \in ScopesSeen(c) :
               LinkedTo(all, OtherScopeId) = {} /\ LinkedLabel(all, OtherScopeId) = "N/A"

-----------------------------------------------------------------------------
(* The derivation functions evaluated on their own, over bounded inputs *)

MaxLinkSteps == 2
MaxLinkActions == 2
MaxLinkParts == 2

ThirdScopeId == "4113b"

BoolSeqs(n) == UNION { [ 1..k -> BOOLEAN ] : k \in 0..n }

SeqsOf(S, n) == UNION { [ 1..k -> S ] : k \in 0..n }

\* actions as a Lead Abatement card can hold them; percentComplete as derived
LinkActions ==
    { [ id |-> 0, percentComplete |-> calculateStepCompletion(st), steps |-> st ] :
        st \in BoolSeqs(MaxLinkSteps) }

\* parts (drawings) of a Lead Abatement document: linked to the target scope,
\* to another scope, or to none
LinkParts ==
    { [ id |-> 0, relatedScopeId |-> r, actions |-> as,
        percentComplete |-> calculateOverallCompletion(as) ] :
        r \in {OtherScopeId, ThirdScopeId, "none"},
        as \in SeqsOf(LinkActions, MaxLinkActions) }

\* a snapshot holding a Lead Abatement document with the given items and the
\* target scope
LinkSnapshot(items) ==
    LET la == [ id |-> LEAD_ABATEMENT_ID, type |-> "scope" ]
        x  == [ id |-> OtherScopeId, type |-> "scope" ]
    IN  [ id \in {LEAD_ABATEMENT_ID, OtherScopeId} |->
            IF id = OtherScopeId THEN x
            ELSE IF variant = "parts" THEN Spread(la, [ parts |-> items ])
            ELSE Spread(la, [ drawings |-> items ]) ]

LinkInputs ==
    { [ kind |-> "abatement", items |-> items ] : items \in SeqsOf(LinkParts, MaxLinkParts) }

progVars == << variant, store, config, crashed, db, userId, isAuthReady,
               signIn, error, isLoading, scopes, subscribed, snapPending, writes,
               modal, seeded, submitted, seedCommits, lastApplied, prevApplied,
               localImageUrl >>

\* the prerequisite row of the target scope is rendered from a snapshot
EvalLinker ==
    /\ arg.kind = "abatement"
    /\ res = NoArg
    /\ LET all == LinkSnapshot(arg.items) IN
       res' = [ kind |-> "linker",
                count |-> LinkerCount(all, OtherScopeId),
                percent |-> LinkerPercent(all, OtherScopeId),
                label |-> LinkedLabel(all, OtherScopeId) ]
    /\ UNCHANGED << progVars, arg >>

MaxSummaryParts == 2

\* the scopes array as the parts variant holds it: the catalog order, every
\* entry of the catalog present
ScopeOrder == << SummaryId, LEAD_ABATEMENT_ID, OtherScopeId >>

\* parts as the handlers leave them: without actions, or with one action and
\* the percentages derived from its steps
SummarySteps ==
    { << FALSE >>, << TRUE, FALSE, FALSE >>, << TRUE, FALSE >>, << TRUE >> }

SummaryParts ==
    { createDefaultPart(0) } \cup
    { [ createDefaultPart(0) EXCEPT
          !.actions = << [ id |-> 0, percentComplete |-> calculateStepCompletion(st),
                           steps |-> st ] >>,
          !.percentComplete = calculateStepCompletion(st) ] : st \in SummarySteps }

ProjectInputs ==
    { [ kind |-> "project",
        scopes |-> [ id \in CatalogIds |->
                       IF id = SummaryId THEN initialScopesData(id)
                       ELSE Spread(initialScopesData(id), [ parts |-> ps[id] ]) ] ] :
        ps \in [ ScopeIds -> SeqsOf(SummaryParts, MaxSummaryParts) ] }

\* parts variant, SummaryPage: the ring's percentage and the percentage of
\* each row of the breakdown
P_SummaryPage(allScopes) ==
    LET ids == SelectIdx(ScopeOrder,
                         { i \in 1..Len(ScopeOrder) : allScopes[ScopeOrder[i]].type = "scope" }, 1)
        nonSummaryScopes == [ i \in 1..Len(ids) |-> allScopes[ids[i]] ]
    IN  [ overallCompletionPercent |-> calculateOverallCompletion(nonSummaryScopes),
          totalScopes |-> Len(nonSummaryScopes),
          scopeDataWithProgress |->
              [ i \in 1..Len(ids) |->
                  [ id |-> ids[i],
                    percent |-> calculateOverallCompletion(nonSummaryScopes[i].parts) ] ] ]

\* the parts summary page is rendered
EvalProject ==
    /\ variant = "parts"
    /\ arg.kind = "project"
    /\ res = NoArg
    /\ res' = Spread([ kind |-> "project" ], P_SummaryPage(arg.scopes))
    /\ UNCHANGED << progVars, arg >>

MaxSummaryActions == 2

\* actions of a drawing: no steps, or steps at 0, 33, 50 and 100 percent
SummaryActions ==
    { [ id |-> 0, percentComplete |-> calculatePercentFromSteps(st), steps |-> st,
        imageAttachment |-> NoAttachment ] : st \in SummarySteps \cup { << >> } }

SummaryDrawings ==
    { [ id |-> 0, name |-> "default", imageUrl |-> "", relatedScopeId |-> "null",
        actions |-> as ] : as \in SeqsOf(SummaryActions, MaxSummaryActions) }

ScopeSummaryInputs ==
    { [ kind |-> "scope",
        scope |-> [ id |-> OtherScopeId, title |-> OtherScopeId, drawings |-> ds ] ] :
        ds \in SeqsOf(SummaryDrawings, MaxSummaryParts) }

RECURSIVE ProdSeq(_)
ProdSeq(s) == IF s = << >> THEN 1 ELSE Head(s) * ProdSeq(Tail(s))

\* the sum of calculatePercentFromSteps over the actions of a drawing
TotalActionPercent(d) ==
    SumSeq([ j \in 1..Len(d.actions) |-> calculatePercentFromSteps(d.actions[j].steps) ])

\* drawings variant, SummaryPage: scopeCompletionRate of one row.  Each drawing
\* adds totalActionPercent / actions.length, a fraction, to the sum; the sum is
\* divided by the number of drawings and rounded once.  The fractions are
\* added here over the common denominator den.
D_scopeCompletionRate(scope) ==
    LET drawingCount == Len(scope.drawings)
        n == [ i \in 1..drawingCount |->
                 IF Len(scope.drawings[i].actions) = 0 THEN 1
                 ELSE Len(scope.drawings[i].actions) ]
        den == ProdSeq(n)
        totalPartCompletion ==
            SumSeq([ i \in 1..drawingCount |->
                       IF Len(scope.drawings[i].actions) = 0 THEN 0
                       ELSE TotalActionPercent(scope.drawings[i]) * (den \div n[i]) ])
    IN  IF drawingCount > 0 THEN Round(totalPartCompletion, den * drawingCount) ELSE 0

\* drawings variant, handleExport: the percentage printed for a drawing
D_partCompletion(drawing) ==
    IF Len(drawing.actions) > 0
    THEN Round(TotalActionPercent(drawing), Len(drawing.actions))
    ELSE 0

\* the drawings summary row of a scope is rendered and its report exported
EvalScopeSummary ==
    /\ variant = "drawings"
    /\ arg.kind = "scope"
    /\ res = NoArg
    /\ res' = [ kind |-> "scope",
                scopeCompletionRate |-> D_scopeCompletionRate(arg.scope),
                partCompletion |-> [ i \in 1..Len(arg.scope.drawings) |->
                                       D_partCompletion(arg.scope.drawings[i]) ] ]
    /\ UNCHANGED << progVars, arg >>

MaxListSteps == 4
LongSteps == 201

\* holders of a step list: without the list, with every list of up to
\* MaxListSteps steps, and with long lists of which at most two steps are open
StepInputs ==
    { [ kind |-> "steps" ] }
    \cup { [ kind |-> "steps", steps |-> st ] : st \in BoolSeqs(MaxListSteps) }
    \cup { [ kind |-> "steps", steps |-> [ i \in 1..LongSteps |-> i <= k ] ] :
             k \in (LongSteps - 2)..LongSteps }

\* the step percentage of the variant, called with holder.steps; a missing
\* list takes the !steps branch
stepCompletion(holder) ==
    IF "steps" \notin DOMAIN holder THEN 0
    ELSE IF variant = "parts" THEN calculateStepCompletion(holder.steps)
    ELSE calculatePercentFromSteps(holder.steps)

\* the percentage of a step list is computed
EvalSteps ==
    /\ arg.kind = "steps"
    /\ res = NoArg
    /\ res' = [ kind |-> "percent", percent |-> stepCompletion(arg),
                before |-> stepCompletion(arg) ]
    /\ UNCHANGED << progVars, arg >>

\* one open step of the list becomes completed and the percentage is
\* computed again
CompleteStep ==
    /\ arg.kind = "steps"
    /\ res.kind = "percent"
    /\ "steps" \in DOMAIN arg
    /\ \E k \in 1..Len(arg.steps) :
          /\ ~arg.steps[k]
          /\ arg' = [ arg EXCEPT !.steps[k] = TRUE ]
          /\ res' = [ kind |-> "percent", percent |-> stepCompletion(arg'),
                      before |-> res.percent ]
    /\ UNCHANGED progVars

\* drawings variant: 'red', 'yellow' or 'green' for a list of actions
getDrawingStatus(actions) ==
    LET totalPercent ==
            SumSeq([ j \in 1..Len(actions) |-> calculatePercentFromSteps(actions[j].steps) ])
        validActions == Len(actions)
    IN  IF Len(actions) = 0 THEN "red"
        ELSE IF totalPercent = 100 * validActions THEN "green"
        ELSE IF totalPercent = 0 THEN "red"
        ELSE "yellow"

\* drawings variant, DrawingCard: the text of the actions button.  With no
\* action the quotient is 0 / 0 and Math.round gives NaN.
D_progressText(drawing) ==
    IF getDrawingStatus(drawing.actions) = "green"
    THEN [ text |-> "All Complete", nan |-> FALSE, percent |-> 100 ]
    ELSE IF Len(drawing.actions) = 0
    THEN [ text |-> "Progress", nan |-> TRUE, percent |-> 0 ]
    ELSE [ text |-> "Progress", nan |-> FALSE,
           percent |-> Round(TotalActionPercent(drawing), Len(drawing.actions)) ]

\* the cards of a drawings scope page are rendered
EvalCards ==
    /\ variant = "drawings"
    /\ arg.kind = "scope"
    /\ res = NoArg
    /\ res' = [ kind |-> "cards",
                status |-> [ i \in 1..Len(arg.scope.drawings) |->
                               getDrawingStatus(arg.scope.drawings[i].actions) ],
                progress |-> [ i \in 1..Len(arg.scope.drawings) |->
                                 D_progressText(arg.scope.drawings[i]) ] ]
    /\ UNCHANGED << progVars, arg >>

\*PURE-ACTIONS

PureInputs ==
    LinkInputs \cup StepInputs
    \cup (IF variant = "parts" THEN ProjectInputs ELSE ScopeSummaryInputs)

PureInit ==
    /\ Constructed
    /\ arg \in PureInputs
    /\ res = NoArg

PureNext ==
    \/ EvalLinker
    \/ EvalProject
    \/ EvalScopeSummary
    \/ EvalSteps
    \/ CompleteStep
    \/ EvalCards

PureSpec == PureInit /\ [][PureNext]_vars

-----------------------------------------------------------------------------
(* C11, C12: the linked percentage *)

RECURSIVE Concat(_)
Concat(ss) == IF ss = << >> THEN << >> ELSE Head(ss) \o Concat(Tail(ss))

\* every step of every action of the items linked to X, in one list
LinkedSteps(items, X) ==
    Concat([ i \in 1..Len(items) |->
               IF items[i].relatedScopeId = X
               THEN Concat([ j \in 1..Len(items[i].actions) |-> items[i].actions[j].steps ])
               ELSE << >> ])

LinkedItems(items, X) == { i \in 1..Len(items) : items[i].relatedScopeId = X }

AllTrue(steps) == \A k \in 1..Len(steps) : steps[k]

\* C11 as stated: with at least one Lead Abatement part linked to X, if every
\* step of every action of every linked part is completed then the linker's
\* percent for X is 100 and the label is Complete.
C11_AllLinkedCompleteIs100 ==
    res.kind = "linker" =>
        ( ( LinkedItems(arg.items, OtherScopeId) # {}
            /\ AllTrue(LinkedSteps(arg.items, OtherScopeId)) )
          => (res.percent = 100 /\ res.label = "Complete") )

\* C11 amended: with at least one step among the parts linked to X, if every
\* such step is completed then the linker's percent for X is 100 and the label
\* is Complete.
C11_AllLinkedStepsCompleteIs100 ==
    res.kind = "linker" =>
        ( ( LinkedSteps(arg.items, OtherScopeId) # << >>
            /\ AllTrue(LinkedSteps(arg.items, OtherScopeId)) )
          => (res.percent = 100 /\ res.label = "Complete") )

\* the linker has been evaluated on a snapshot where the linked part is
\* complete and a part linked elsewhere has an open step
C11_Witness ==
    /\ res.kind = "linker"
    /\ LinkedSteps(arg.items, OtherScopeId) # << >>
    /\ AllTrue(LinkedSteps(arg.items, OtherScopeId))
    /\ ~ AllTrue(LinkedSteps(arg.items, ThirdScopeId))
    /\ res.percent = 100
    /\ res.label = "Complete"

\* C12: for a snapshot with parts linked to X, the linker's percent is
\* round(100 * C / T) with T and C the steps and the completed steps of exactly
\* the parts linked to X, and the linked count is the number of linked parts.
C12_PercentIsStepWeighted ==
    res.kind = "linker" =>
        LET linked == LinkedSteps(arg.items, OtherScopeId) IN
        /\ res.count = Cardinality(LinkedItems(arg.items, OtherScopeId))
        /\ Len(linked) > 0 => res.percent = Round(100 * CountTrue(linked), Len(linked))

\* one linked part whose actions differ in their number of steps, so that the
\* step-weighted percentage (33) is not the mean of the action percentages (50),
\* next to a part linked to another scope whose steps are all complete
C12_Witness ==
    /\ res.kind = "linker"
    /\ res.count = 1
    /\ Len(LinkedSteps(arg.items, OtherScopeId)) = 3
    /\ CountTrue(LinkedSteps(arg.items, OtherScopeId)) = 1
    /\ res.percent = 33
    /\ LinkedSteps(arg.items, ThirdScopeId) # << >>
    /\ AllTrue(LinkedSteps(arg.items, ThirdScopeId))
    /\ \E i \in LinkedItems(arg.items, OtherScopeId) :
           \E j \in 1..Len(arg.items[i].actions) : arg.items[i].actions[j].steps = << TRUE >>

-----------------------------------------------------------------------------
(* C13: the linked status is derived, never stored *)

\* the lead-abatement prerequisite field of a stored scope document
LAField(doc) ==
    IF variant = "parts" THEN doc.prereqStatusLeadAbatement ELSE doc.prereqs.leadAbatement

LAStatus(doc) ==
    IF variant = "parts" THEN doc.prereqStatusLeadAbatement
    ELSE doc.prereqs.leadAbatement.status

\* a snapshot reduced to its Lead Abatement document
LAOnly(all) == [ id \in DOMAIN all \cap {LEAD_ABATEMENT_ID} |-> all[id] ]

StandardScopes == ScopeIds \ {LEAD_ABATEMENT_ID}

\* C13: a mutation submitted from a scope's page writes that scope's document
\* and no other, so a Lead Abatement mutation writes only the lead_abatement
\* document; no step changes the stored lead-abatement prerequisite field of a
\* scope other than Lead Abatement; and the status a client shows for such a
\* scope is the one computed from the Lead Abatement document of its snapshot.
C13_DerivedStatusNotPersisted ==
    [][ /\ \A c \in Clients : \A k \in 1..Len(writes'[c]) :
              writes'[c][k].kind = "set" => writes'[c][k].data.id = writes'[c][k].id
        /\ \A d \in DOMAIN store' :
              (d \notin DOMAIN store \/ store'[d] # store[d]) =>
                  (lastApplied'.kind = "batch" \/ lastApplied'.id = d)
        /\ \A X \in StandardScopes \cap DOMAIN store :
              X \in DOMAIN store' /\ LAField(store'[X]) = LAField(store[X])
        /\ \A c \in Clients : \A X \in StandardScopes \cap DOMAIN scopes'[c] :
              LinkedLabel(scopes'[c], X) = LinkedLabel(LAOnly(scopes'[c]), X)
      ]_vars

\* the store has applied a Lead Abatement mutation, a client shows Complete
\* for the linked scope, and that scope's stored field still reads Not Started
C13_Witness ==
    /\ lastApplied.kind = "set"
    /\ lastApplied.id = LEAD_ABATEMENT_ID
    /\ OtherScopeId \in DOMAIN store
    /\ LAStatus(store[OtherScopeId]) = "Not Started"
    /\ \E c \in Clients :
          /\ OtherScopeId \in DOMAIN scopes[c]
          /\ LinkedTo(scopes[c], OtherScopeId) # {}
          /\ LinkedLabel(scopes[c], OtherScopeId) = "Complete"
          /\ LAStatus(scopes[c][OtherScopeId]) = "Not Started"

-----------------------------------------------------------------------------
(* C14: the project-level completion of the parts summary page *)

\* the rounded mean of the percentComplete of a scope's parts
ScopeAggregate(scope) ==
    IF scope.parts = << >> THEN 0
    ELSE Round(SumSeq([ i \in 1..Len(scope.parts) |-> scope.parts[i].percentComplete ]),
               Len(scope.parts))

\* C14: on the parts summary page the project-level completion is the rounded
\* mean, over the scopes other than the summary, of each scope's aggregate
\* completion; it is 100 when every part of every scope is at 100.
C14_ProjectIsMeanOfScopes ==
    res.kind = "project" =>
        res.overallCompletionPercent =
            Round(SumSeq([ i \in 1..Len(res.scopeDataWithProgress) |->
                             ScopeAggregate(arg.scopes[res.scopeDataWithProgress[i].id]) ]),
                  Len(res.scopeDataWithProgress))

\* the summary page has been rendered over scopes whose parts are all at 100
C14_AllComplete ==
    /\ res.kind = "project"
    /\ \A id \in ScopeIds :
          /\ arg.scopes[id].parts # << >>
          /\ \A i \in 1..Len(arg.scopes[id].parts) : arg.scopes[id].parts[i].percentComplete = 100
    /\ \A i \in 1..Len(res.scopeDataWithProgress) : res.scopeDataWithProgress[i].percent = 100

\* the row of each scope shows the rounded mean of its parts' percentComplete
C14_RowsAreScopeAggregates ==
    res.kind = "project" =>
        /\ { res.scopeDataWithProgress[i].id : i \in 1..Len(res.scopeDataWithProgress) } = ScopeIds
        /\ \A i \in 1..Len(res.scopeDataWithProgress) :
              res.scopeDataWithProgress[i].percent =
                  ScopeAggregate(arg.scopes[res.scopeDataWithProgress[i].id])

\* whatever the parts hold, the ring shows 0
C14_ProjectAlwaysZero ==
    res.kind = "project" => res.overallCompletionPercent = 0

-----------------------------------------------------------------------------
(* C15: the completion of a scope on the drawings summary page *)

\* C15: on the drawings summary page the completion shown for a scope is the
\* rounded mean, over its parts, of the part's percentage (the number the
\* exported report prints for the part), and 0 for a scope without parts.
C15_ScopeIsMeanOfPartPercentages ==
    res.kind = "scope" =>
        res.scopeCompletionRate =
            IF res.partCompletion = << >> THEN 0
            ELSE Round(SumSeq(res.partCompletion), Len(res.partCompletion))

\* the shown completion is never more than one point away from that mean
C15_WithinOnePoint ==
    res.kind = "scope" /\ res.partCompletion # << >> =>
        LET mean == Round(SumSeq(res.partCompletion), Len(res.partCompletion))
        IN  res.scopeCompletionRate \in { mean, mean + 1 } \/ res.scopeCompletionRate + 1 = mean

-----------------------------------------------------------------------------
(* C16: the step percentage *)

\* the percentage is 0 without steps, round(100 * completed / total) with
\* steps, and not lower than before the last step was completed
StepPercentLaw ==
    /\ ("steps" \notin DOMAIN arg \/ arg.steps = << >>) => res.percent = 0
    /\ ("steps" \in DOMAIN arg /\ arg.steps # << >>) =>
           /\ res.percent = Round(100 * CountTrue(arg.steps), Len(arg.steps))
           /\ AllTrue(arg.steps) => res.percent = 100
    /\ res.before <= res.percent

-----------------------------------------------------------------------------
(* C17: containers without children *)

\* C17: wherever a completion percentage is derived, a container with zero
\* children yields exactly 0, never 100 and never an undefined or
\* not-a-number value, and its status is Not Started (red).
C17_ZeroChildrenIsZero ==
    /\ res.kind = "percent" =>
           (("steps" \notin DOMAIN arg \/ arg.steps = << >>) => res.percent = 0)
    /\ res.kind = "project" =>
           \A i \in 1..Len(res.scopeDataWithProgress) :
               arg.scopes[res.scopeDataWithProgress[i].id].parts = << >> =>
                   /\ res.scopeDataWithProgress[i].percent = 0
                   /\ getStatusLabel(res.scopeDataWithProgress[i].percent) = "Not Started"
    /\ res.kind = "scope" =>
           /\ arg.scope.drawings = << >> => res.scopeCompletionRate = 0
           /\ \A i \in 1..Len(arg.scope.drawings) :
                 arg.scope.drawings[i].actions = << >> => res.partCompletion[i] = 0
    /\ res.kind = "cards" =>
           \A i \in 1..Len(arg.scope.drawings) :
               arg.scope.drawings[i].actions = << >> =>
                   /\ res.status[i] = "red"
                   /\ ~res.progress[i].nan
                   /\ res.progress[i].percent = 0

\* the same without the text of the drawing card's actions button
C17_ZeroChildrenIsZeroElsewhere ==
    /\ res.kind = "percent" =>
           (("steps" \notin DOMAIN arg \/ arg.steps = << >>) => res.percent = 0)
    /\ res.kind = "project" =>
           \A i \in 1..Len(res.scopeDataWithProgress) :
               arg.scopes[res.scopeDataWithProgress[i].id].parts = << >> =>
                   /\ res.scopeDataWithProgress[i].percent = 0
                   /\ getStatusLabel(res.scopeDataWithProgress[i].percent) = "Not Started"
    /\ res.kind = "scope" =>
           /\ arg.scope.drawings = << >> => res.scopeCompletionRate = 0
           /\ \A i \in 1..Len(arg.scope.drawings) :
                 arg.scope.drawings[i].actions = << >> => res.partCompletion[i] = 0
    /\ res.kind = "cards" =>
           \A i \in 1..Len(arg.scope.drawings) :
               arg.scope.drawings[i].actions = << >> => res.status[i] = "red"

-----------------------------------------------------------------------------
(* C18: a merging setDoc of a whole document *)

\* the keys of a document and of its nested maps
Keys(doc) ==
    { << f >> : f \in DOMAIN doc }
    \cup UNION { { << f, g >> : g \in DOMAIN doc[f] } : f \in DOMAIN doc \cap MapFields }

\* C18: in the parts variant, when the store applies an updateScopeData issued
\* by a page handler, the stored document becomes exactly the submitted one:
\* no field or nested key of the document stored before survives unless the
\* submitted document carries it.
C18_MergeIsReplace ==
    [][ \A c \in Clients :
          (variant = "parts" /\ SetApplied(c)) =>
              LET w == Head(writes[c]) IN
              /\ w.id \in DOMAIN store => Keys(store[w.id]) \subseteq Keys(w.data)
              /\ Keys(store'[w.id]) = Keys(w.data)
              /\ \A f \in DOMAIN w.data : store'[w.id][f] = w.data[f] ]_vars

\* the parts store has applied a document with fewer parts than the stored
\* one it replaced, and holds it with the creation time in its sanitized form
C18_Witness ==
    /\ variant = "parts"
    /\ lastApplied.kind = "set"
    /\ "parts" \in DOMAIN lastApplied.base
    /\ Len(lastApplied.data.parts) < Len(lastApplied.base.parts)
    /\ ~lastApplied.conflict
    /\ store[lastApplied.id] = lastApplied.data
    /\ store[lastApplied.id].createdAt = "TimestampJSON"

-----------------------------------------------------------------------------
(* C19: no image bytes in the store *)

\* the parts or drawings of a stored scope document
ItemsOf(doc) ==
    IF "parts" \in DOMAIN doc THEN doc.parts
    ELSE IF "drawings" \in DOMAIN doc THEN doc.drawings
    ELSE << >>

\* a document without image bytes: no image URL on a part, and attachments
\* that are null or carry a name and a saved flag only
NoImageBytes(doc) ==
    \A i \in 1..Len(ItemsOf(doc)) :
        /\ ItemsOf(doc)[i].imageUrl = ""
        /\ \A j \in 1..Len(ItemsOf(doc)[i].actions) :
              LET a == ItemsOf(doc)[i].actions[j] IN
              "imageAttachment" \in DOMAIN a =>
                  \/ a.imageAttachment = NoAttachment
                  \/ DOMAIN a.imageAttachment \subseteq {"name", "saved"}

\* C19: no stored scope document and no submitted document contains image
\* bytes, and an upload changes component state only: it queues no write and
\* leaves the store and the client's scopes as they were.
C19_NoImageBytesStored ==
    /\ [][ \A c \in Clients :
             (modal'[c] # modal[c] /\ modal'[c].kind = "action" /\ modal[c].kind = "action"
              /\ modal'[c].image # modal[c].image) \/ localImageUrl'[c] # localImageUrl[c]
             => (writes' = writes /\ store' = store /\ scopes' = scopes) ]_vars
    /\ []( /\ \A id \in DOMAIN store : NoImageBytes(store[id])
           /\ \A w \in Submitted : NoImageBytes(w.data) )

\* an image was uploaded on a card and in the action modal, and the action
\* was saved: the store holds the attachment's metadata
C19_Witness ==
    /\ \E c \in Clients : localImageUrl[c] # {}
    /\ lastApplied.kind = "set"
    /\ lastApplied.id \in DOMAIN store
    /\ \E i \in 1..Len(ItemsOf(store[lastApplied.id])) :
          \E j \in 1..Len(ItemsOf(store[lastApplied.id])[i].actions) :
              LET a == ItemsOf(store[lastApplied.id])[i].actions[j] IN
              /\ "imageAttachment" \in DOMAIN a
              /\ a.imageAttachment # NoAttachment
              /\ "name" \in DOMAIN a.imageAttachment

-----------------------------------------------------------------------------
(* C20: the scopes state after a snapshot *)

\* a delivered document as a client can hold it: as delivered, up to the
\* JSON round trip of the parts variant
AsDelivered(d) == IF variant = "parts" THEN sanitizeData(d) ELSE d

\* C20: when a client has processed a snapshot, its scopes hold every
\* delivered document as delivered and nothing of an earlier snapshot: after a
\* non-empty snapshot each delivered document is held with its delivered
\* fields, after an empty snapshot no document is held.
C20_ScopesAreTheSnapshot ==
    [][ \A c \in Clients :
          DeliverSnapshot(c) =>
              LET view == View(c) IN
              /\ \A id \in DOMAIN view :
                    /\ id \in DOMAIN scopes'[c]
                    /\ \A f \in DOMAIN view[id] :
                          scopes'[c][id][f] = AsDelivered(view[id])[f]
              /\ DOMAIN view = {} => DOMAIN scopes'[c] = {} ]_vars

\* after a non-empty snapshot the scopes hold the delivered documents
C20_NonEmptySnapshotReplaces ==
    [][ \A c \in Clients :
          (DeliverSnapshot(c) /\ DOMAIN View(c) # {}) =>
              \A id \in DOMAIN View(c) :
                  /\ id \in DOMAIN scopes'[c]
                  /\ \A f \in DOMAIN View(c)[id] :
                        scopes'[c][id][f] = AsDelivered(View(c)[id])[f] ]_vars

-----------------------------------------------------------------------------
(* C21: what a Lead Abatement part can be linked to *)

\* the value a part that is not linked carries
NotLinked == IF variant = "parts" THEN "none" ELSE "null"

\* the ids the related-scope picker of client c offers on the Lead Abatement page
PickerOffers(c) ==
    IF variant = "parts"
    THEN otherScopeIds(scopes[c][LEAD_ABATEMENT_ID], scopes[c])
    ELSE OTHER_SCOPES

\* every Lead Abatement part of doc is unlinked or linked to a scope of known
\* that is neither Lead Abatement nor the summary view
LinksWithin(doc, known) ==
    \A i \in 1..Len(ItemsOf(doc)) :
        \/ ItemsOf(doc)[i].relatedScopeId = NotLinked
        \/ ItemsOf(doc)[i].relatedScopeId \in known \ {LEAD_ABATEMENT_ID, SummaryId}

\* C21: in every state the stored Lead Abatement document, and every Lead
\* Abatement document submitted to the store, has for each part a
\* relatedScopeId that is the not-linked value or the id of an existing scope
\* other than lead_abatement; the related-scope picker offers neither
\* lead_abatement nor the summary view.
C21_RelatedScopeIsOtherScope ==
    /\ LEAD_ABATEMENT_ID \in DOMAIN store =>
           LinksWithin(store[LEAD_ABATEMENT_ID], DOMAIN store)
    /\ \A w \in Submitted :
           w.id = LEAD_ABATEMENT_ID => LinksWithin(w.data, ScopeIds)
    /\ \A c \in Clients :
           LEAD_ABATEMENT_ID \in DOMAIN scopes[c] =>
               PickerOffers(c) \cap {LEAD_ABATEMENT_ID, SummaryId} = {}

\* the store holds a Lead Abatement document with a part linked to the other
\* scope next to a part that is not linked
C21_Witness ==
    /\ LEAD_ABATEMENT_ID \in DOMAIN store
    /\ lastApplied.kind = "set"
    /\ lastApplied.id = LEAD_ABATEMENT_ID
    /\ \E i, j \in 1..Len(ItemsOf(store[LEAD_ABATEMENT_ID])) :
          /\ ItemsOf(store[LEAD_ABATEMENT_ID])[i].relatedScopeId = OtherScopeId
          /\ ItemsOf(store[LEAD_ABATEMENT_ID])[j].relatedScopeId = NotLinked
    /\ OtherScopeId \in DOMAIN store

-----------------------------------------------------------------------------
(* C22: the simplified toggle of the Lead Abatement page, parts variant *)

\* the document handleActionToggle submits for action j of part i of scope
Toggled(scope, i, j) ==
    handleActionToggle(scope, scope.parts[i], scope.parts[i].actions[j].id)

\* w is the write of a toggle of action j of part i
IsToggleWrite(w, i, j) ==
    /\ w.kind = "set" /\ w.id = LEAD_ABATEMENT_ID
    /\ "parts" \in DOMAIN w.base
    /\ i \in 1..Len(w.base.parts)
    /\ j \in 1..Len(w.base.parts[i].actions)
    /\ w.data = Toggled(w.base, i, j)

\* C22: in the parts variant, for every Lead Abatement snapshot a client holds
\* and every action of it with exactly one step, the document the toggle
\* submits has that action's percentComplete flipped between 0 and 100, the
\* step's completed flag in agreement with it (percentComplete equals
\* calculateStepCompletion of the steps), the owning part's percentComplete
\* recomputed from its actions (100 when the action is the part's only one
\* and now complete), and toggling the same action of the submitted document
\* again gives back the action and the part as they were.
C22_ToggleFlipsAndRestores ==
    variant = "parts" =>
        \A c \in Clients :
            LEAD_ABATEMENT_ID \in DOMAIN scopes[c] =>
                LET scope == scopes[c][LEAD_ABATEMENT_ID] IN
                \A i \in 1..Len(scope.parts) : \A j \in 1..Len(scope.parts[i].actions) :
                    LET a == scope.parts[i].actions[j]
                        d == Toggled(scope, i, j)
                        p == d.parts[i]
                        b == p.actions[j]
                    IN  Len(a.steps) = 1 =>
                            /\ a.percentComplete \in {0, 100}
                            /\ b.percentComplete = 100 - a.percentComplete
                            /\ b.steps = << b.percentComplete = 100 >>
                            /\ b.percentComplete = calculateStepCompletion(b.steps)
                            /\ p.percentComplete = MeanPercent(p.actions)
                            /\ (Len(p.actions) = 1 /\ b.percentComplete = 100)
                                   => p.percentComplete = 100
                            /\ \A k \in 1..Len(d.parts) :
                                   k # i => d.parts[k] = scope.parts[k]
                            /\ Toggled(d, i, j) = scope

\* the store applied two toggles of the only action of a part in a row: the
\* first took the action and the part to 100, the second took the document
\* back to what it was before the first
C22_Witness ==
    /\ variant = "parts"
    /\ \E i \in 1..MaxParts, j \in 1..MaxActions :
          /\ IsToggleWrite(prevApplied, i, j)
          /\ IsToggleWrite(lastApplied, i, j)
          /\ Len(prevApplied.base.parts[i].actions) = 1
          /\ prevApplied.base.parts[i].actions[j].percentComplete = 0
          /\ prevApplied.data.parts[i].actions[j].percentComplete = 100
          /\ prevApplied.data.parts[i].actions[j].steps = << TRUE >>
          /\ prevApplied.data.parts[i].percentComplete = 100
          /\ lastApplied.base = prevApplied.data
          /\ lastApplied.data = prevApplied.base
    /\ store[LEAD_ABATEMENT_ID] = lastApplied.data

-----------------------------------------------------------------------------
(* C23: saving without a change recomputes the same derived fields *)

\* the percentComplete and status fields of a scope document
DerivedFields(doc) ==
    IF variant = "parts"
    THEN [ parts |-> [ i \in 1..Len(doc.parts) |->
                         [ percentComplete |-> doc.parts[i].percentComplete,
                           actions |-> [ j \in 1..Len(doc.parts[i].actions) |->
                                           doc.parts[i].actions[j].percentComplete ] ] ],
           status |-> [ k \in MapFields |-> doc[k].status ],
           leadAbatement |-> doc.prereqStatusLeadAbatement ]
    ELSE [ parts |-> [ i \in 1..Len(doc.drawings) |->
                         [ actions |-> [ j \in 1..Len(doc.drawings[i].actions) |->
                                           doc.drawings[i].actions[j].percentComplete ] ] ],
           status |-> [ k \in DOMAIN doc.prereqs |-> doc.prereqs[k].status ] ]

\* the action the action modal m works on, as doc holds it
TargetAction(doc, m) ==
    LET part == PartById(ItemsOf(doc), m.partId)
    IN  part.actions[CHOOSE j \in 1..Len(part.actions) : part.actions[j].id = m.action.id]

\* the steps doc holds for what modal m edits
TargetSteps(doc, m) ==
    IF m.kind = "action" THEN TargetAction(doc, m).steps
    ELSE IF variant = "parts" THEN doc[m.key].steps
    ELSE doc.prereqs[m.key].steps

\* modal m can be saved into doc: what it edits is there
TargetPresent(doc, m) ==
    m.kind = "action" =>
        /\ HasId(ItemsOf(doc), m.partId)
        /\ HasId(PartById(ItemsOf(doc), m.partId).actions, m.action.id)

\* the document the Save button of modal m submits when the page holds scope
ModalSave(scope, m) ==
    IF m.kind = "action"
    THEN IF variant = "parts"
         THEN P_ActionModal_handleSave(scope, PartById(scope.parts, m.partId),
                                       m.action, m.steps, m.image)
         ELSE D_ActionModal_handleSave(scope, PartById(scope.drawings, m.partId),
                                       m.action, [ m.action EXCEPT !.steps = m.steps ],
                                       m.image)
    ELSE IF variant = "parts"
         THEN P_PrereqModal_handleSave(scope, m.key, m.steps)
         ELSE D_PrereqModal_handleSave(scope, m.key, [ m.data EXCEPT !.steps = m.steps ])

\* modal m opened again on doc, nothing edited
Reopened(doc, m) ==
    IF m.kind = "action"
    THEN [ m EXCEPT !.action = TargetAction(doc, m),
                    !.steps = TargetAction(doc, m).steps,
                    !.image = IF variant = "parts" THEN NoAttachment
                              ELSE TargetAction(doc, m).imageAttachment ]
    ELSE IF variant = "parts" THEN [ m EXCEPT !.steps = doc[m.key].steps ]
    ELSE [ m EXCEPT !.data = doc.prereqs[m.key], !.steps = doc.prereqs[m.key].steps ]

-----------------------------------------------------------------------------
(* C24: what a mutation leaves alone *)

\* list s without its k-th element
DropAt(s, k) == SelectIdx(s, (1..Len(s)) \ {k}, 1)

\* list d is list b with one element appended, one element removed, or one
\* element replaced in a way Inner allows; all other elements are the same
\* and in the same places
ListEdit(b, d, Inner(_, _)) ==
    \/ d = b
    \/ Len(d) = Len(b) + 1 /\ SubSeq(d, 1, Len(b)) = b
    \/ \E k \in 1..Len(b) : d = DropAt(b, k)
    \/ /\ Len(d) = Len(b)
       /\ \E k \in 1..Len(b) :
             /\ \A i \in 1..Len(b) : i # k => d[i] = b[i]
             /\ Inner(b[k], d[k])

\* the targeted action may change as a whole
ActionEdit(b, d) == TRUE

\* a part changes either in one field of its own (its title or its related
\* scope), or in one of its actions, with its percentComplete following in
\* the parts variant
PartEdit(b, d) ==
    /\ DOMAIN d = DOMAIN b
    /\ \/ /\ d.actions = b.actions
          /\ "percentComplete" \in DOMAIN b => d.percentComplete = b.percentComplete
          /\ Cardinality({ f \in DOMAIN b : d[f] # b[f] }) <= 1
       \/ /\ \A f \in DOMAIN b \ {"actions", "percentComplete"} : d[f] = b[f]
          /\ ListEdit(b.actions, d.actions, ActionEdit)

\* a scope document changes in one part or in one prerequisite
DocEdit(b, d) ==
    LET items == IF variant = "parts" THEN "parts" ELSE "drawings"
        changed == { f \in DOMAIN b : d[f] # b[f] }
    IN  /\ DOMAIN d = DOMAIN b
        /\ \/ changed = {}
           \/ changed = {items} /\ ListEdit(b[items], d[items], PartEdit)
           \/ variant = "parts" /\ \E k \in MapFields : changed = {k}
           \/ /\ variant = "drawings" /\ changed = {"prereqs"}
              /\ DOMAIN d.prereqs = DOMAIN b.prereqs
              /\ Cardinality({ k \in DOMAIN b.prereqs : d.prereqs[k] # b.prereqs[k] }) = 1

\* client c hands document w to the store in this step
Submits(c, w) == writes'[c] = Append(writes[c], w) /\ w.kind = "set"

\* C24: every step in which a handler submits does so with exactly one write,
\* by one client, to the document of the scope whose page the handler is on;
\* the submitted document differs from the client's snapshot of that scope
\* only in the targeted part, action or prerequisite and, in the parts
\* variant, in the percentComplete of the part that holds the targeted
\* action: every other part, action, prerequisite and scope-level field is
\* the snapshot's.
C24_OneWriteFramed ==
    [][ /\ submitted' \in {submitted, submitted + 1}
        /\ \A c \in Clients :
              Len(writes'[c]) <= Len(writes[c]) + 1
        /\ \A c \in Clients :
              Len(writes'[c]) = Len(writes[c]) + 1 =>
                  LET w == writes'[c][Len(writes'[c])] IN
                  /\ writes'[c] = Append(writes[c], w)
                  /\ \A d \in Clients \ {c} : writes'[d] = writes[d]
                  /\ w.kind = "set" =>
                        /\ submitted' = submitted + 1
                        /\ w.id \in DOMAIN scopes[c]
                        /\ w.data.id = w.id
                        /\ DocEdit(scopes[c][w.id], w.data)
        /\ submitted' = submitted + 1 =>
              \E c \in Clients :
                  /\ Len(writes'[c]) = Len(writes[c]) + 1
                  /\ writes'[c][Len(writes'[c])].kind = "set"
      ]_vars

\* a document with two parts, the first with two actions, was submitted with
\* the second action of the first part changed (or removed): the other part
\* and the other action are in it as the client held them
C24_Witness ==
    \E c \in Clients :
        /\ writes[c] # << >>
        /\ LET w == writes[c][Len(writes[c])] IN
           /\ w.kind = "set"
           /\ Len(ItemsOf(w.base)) >= 2
           /\ Len(ItemsOf(w.base)[1].actions) = 2
           /\ Len(ItemsOf(w.data)) >= 2
           /\ Len(ItemsOf(w.data)[1].actions) >= 1
           /\ ItemsOf(w.data)[1].actions # ItemsOf(w.base)[1].actions
           /\ ItemsOf(w.data)[1].actions[1] = ItemsOf(w.base)[1].actions[1]
           /\ ItemsOf(w.data)[2] = ItemsOf(w.base)[2]
           /\ \A f \in DOMAIN w.base \ {"parts", "drawings"} : w.data[f] = w.base[f]

-----------------------------------------------------------------------------
(* C25: the attachment of an action across a save *)

\* the attachment metadata an action carries (none when the field is absent)
AttachmentOf(a) ==
    IF "imageAttachment" \in DOMAIN a THEN a.imageAttachment ELSE NoAttachment

\* client c saves the action modal in this step, no image having been chosen
\* since the modal was opened
SavesWithoutUpload(c) ==
    /\ modal[c].kind = "action"
    /\ "dataURL" \notin DOMAIN modal[c].image
    /\ modal'[c] = NoModal
    /\ Len(writes'[c]) = Len(writes[c]) + 1
    /\ writes'[c][Len(writes'[c])].kind = "set"

\* the saved action keeps the attachment it had when the modal was opened,
\* the client's snapshot holding that attachment still
AttachmentKept(c) ==
    LET m == modal[c]
        w == writes'[c][Len(writes'[c])]
    IN  AttachmentOf(TargetAction(scopes[c][m.scopeId], m)) = AttachmentOf(m.action)
            => AttachmentOf(TargetAction(w.data, m)) = AttachmentOf(m.action)

\* C25: when the action modal is saved and no image was uploaded while it was
\* open, the action in the written document carries the imageAttachment
\* metadata it had when the modal was opened.
C25_AttachmentKept ==
    [][ \A c \in Clients : SavesWithoutUpload(c) => AttachmentKept(c) ]_vars

\* the same for the drawings variant alone
C25_AttachmentKeptDrawings ==
    [][ \A c \in Clients :
          (variant = "drawings" /\ SavesWithoutUpload(c)) => AttachmentKept(c) ]_vars

\* a drawings action with a stored attachment was saved again without an
\* upload and the store holds the attachment still
C25_DrawingsKeepWitness ==
    /\ variant = "drawings"
    /\ lastApplied.kind = "set" /\ prevApplied.kind = "set"
    /\ lastApplied.base = prevApplied.data
    /\ \E i \in 1..Len(lastApplied.data.drawings) :
          \E j \in 1..Len(lastApplied.data.drawings[i].actions) :
              /\ j \in 1..Len(lastApplied.base.drawings[i].actions)
              /\ lastApplied.base.drawings[i].actions[j].imageAttachment = [ name |-> "file" ]
              /\ lastApplied.data.drawings[i].actions[j].imageAttachment = [ name |-> "file" ]

-----------------------------------------------------------------------------
(* C26: the order of siblings *)

IdsOf(s) == [ i \in 1..Len(s) |-> s[i].id ]

\* id list d is id list b, or b with a new id at the end, or b with one id
\* taken out and the others in their places
OrderKept(b, d) ==
    \/ d = b
    \/ /\ Len(d) = Len(b) + 1 /\ SubSeq(d, 1, Len(b)) = b
       /\ \A i \in 1..Len(b) : b[i] # d[Len(d)]
    \/ \E k \in 1..Len(b) : d = DropAt(b, k)

\* step list d is step list b with a step appended, a step removed or a step
\* toggled in place
StepsEdited(b, d) ==
    \/ d = Append(b, FALSE)
    \/ \E k \in 1..Len(b) : d = DropAt(b, k)
    \/ Len(d) = Len(b) /\ Cardinality({ k \in 1..Len(b) : d[k] # b[k] }) <= 1

\* the parts of d and their actions are those of b in b's order
SiblingOrderKept(b, d) ==
    /\ OrderKept(IdsOf(ItemsOf(b)), IdsOf(ItemsOf(d)))
    /\ \A i \in 1..Len(ItemsOf(b)) : \A k \in 1..Len(ItemsOf(d)) :
          ItemsOf(b)[i].id = ItemsOf(d)[k].id =>
              OrderKept(IdsOf(ItemsOf(b)[i].actions), IdsOf(ItemsOf(d)[k].actions))

\* C26: every document a handler submits holds the parts of the client's
\* snapshot, and the actions of each part, in the snapshot's order: an added
\* part or action is the last of its list, a deleted one is the only one
\* missing, and nothing else changes the order or the ids; in the modals a
\* step is added at the end, removed from its place or toggled in place,
\* and the saved action holds the modal's step list.
C26_InsertionOrder ==
    [][ \A c \in Clients :
          /\ Len(writes'[c]) = Len(writes[c]) + 1 =>
                LET w == writes'[c][Len(writes'[c])] IN
                w.kind = "set" =>
                    /\ SiblingOrderKept(scopes[c][w.id], w.data)
                    /\ ( modal[c].kind \in {"action", "prereq"}
                         /\ TargetPresent(w.data, modal[c]) ) =>
                           TargetSteps(w.data, modal[c]) = modal[c].steps
          /\ (modal[c].kind # "none" /\ modal'[c].kind # "none"
              /\ modal'[c].steps # modal[c].steps) =>
                StepsEdited(modal[c].steps, modal'[c].steps)
      ]_vars

\* a document was submitted in which the first of three parts is deleted and
\* the two others follow in their order, the last of them a part that had
\* been added at the end
C26_Witness ==
    \E c \in Clients :
        /\ writes[c] # << >>
        /\ LET w == writes[c][Len(writes[c])] IN
           /\ w.kind = "set"
           /\ Len(ItemsOf(w.base)) = 3
           /\ IdsOf(ItemsOf(w.data)) = Tail(IdsOf(ItemsOf(w.base)))
           /\ ItemsOf(w.base)[3].id >= 100

-----------------------------------------------------------------------------
(* C27: the summary view and the scopes collection *)

\* the ids of the documents write w sets
WrittenIds(w) == IF w.kind = "batch" THEN DOMAIN w.docs ELSE {w.id}

AllPending == UNION { { writes[c][i] : i \in 1..Len(writes[c]) } : c \in Clients }

\* the summary entry takes no part in what a client computes and offers
SummaryExcluded(c) ==
    (LEAD_ABATEMENT_ID \in DOMAIN scopes[c]) =>
        /\ SummaryId \notin PickerOffers(c)
        /\ variant = "parts" =>
              LET page == P_SummaryPage(scopes[c]) IN
              /\ page.totalScopes = Cardinality(ScopeIds)
              /\ \A i \in 1..Len(page.scopeDataWithProgress) :
                    page.scopeDataWithProgress[i].id # SummaryId

\* C27: the scopes collection never holds a document with id 'summary' and no
\* seeding batch or mutation writes one; the summary entry is in no
\* completion aggregate and is not offered by the related-scope picker.
C27_SummaryNeverStored ==
    /\ SummaryId \notin DOMAIN store
    /\ \A w \in AllPending : SummaryId \notin WrittenIds(w)
    /\ \A c \in Clients : SummaryExcluded(c)

\* no handler writes the summary document, the drawings variant never stores
\* it, and the summary entry is excluded from aggregates and picker
C27_SummaryNotMutated ==
    /\ \A w \in Submitted : w.id # SummaryId
    /\ variant = "drawings" => SummaryId \notin DOMAIN store
    /\ \A c \in Clients : SummaryExcluded(c)

-----------------------------------------------------------------------------
(* C28: two mutations of one client on one scope *)

PartIdSet(doc) == { ItemsOf(doc)[i].id : i \in 1..Len(ItemsOf(doc)) }

ActionIdSet(doc) ==
    UNION { { << ItemsOf(doc)[i].id, ItemsOf(doc)[i].actions[j].id >> :
                j \in 1..Len(ItemsOf(doc)[i].actions) } : i \in 1..Len(ItemsOf(doc)) }

\* each action of doc with the part that holds it
ActionValues(doc) ==
    UNION { { << ItemsOf(doc)[i].id, ItemsOf(doc)[i].actions[j] >> :
                j \in 1..Len(ItemsOf(doc)[i].actions) } : i \in 1..Len(ItemsOf(doc)) }

\* each part of doc without its actions and its derived percentage
PartValues(doc) ==
    { LET p == ItemsOf(doc)[i] IN
      << p.id, [ f \in DOMAIN p \ {"actions", "percentComplete"} |-> p[f] ] >> :
        i \in 1..Len(ItemsOf(doc)) }

\* each scope-level field of doc other than the list of parts
FieldValues(doc) == { << f, doc[f] >> : f \in DOMAIN doc \ {"parts", "drawings"} }

\* document s keeps what the mutation from b to d did: what it added is
\* there, what it removed is gone, and no value it replaced is back
KeepsMutation(b, d, s) ==
    /\ (PartIdSet(d) \ PartIdSet(b)) \subseteq PartIdSet(s)
    /\ (PartIdSet(b) \ PartIdSet(d)) \cap PartIdSet(s) = {}
    /\ \A pa \in ActionIdSet(d) \ ActionIdSet(b) :
          pa[1] \in PartIdSet(s) => pa \in ActionIdSet(s)
    /\ (ActionIdSet(b) \ ActionIdSet(d)) \cap ActionIdSet(s) = {}
    /\ (ActionValues(b) \ ActionValues(d)) \cap ActionValues(s) = {}
    /\ (PartValues(b) \ PartValues(d)) \cap PartValues(s) = {}
    /\ (FieldValues(b) \ FieldValues(d)) \cap FieldValues(s) = {}

\* the two writes the store applied last are mutations of one client on one
\* scope document, and each changed the document its handler started from
TwoInARow ==
    /\ prevApplied.kind = "set" /\ lastApplied.kind = "set"
    /\ prevApplied.by = lastApplied.by
    /\ prevApplied.id = lastApplied.id
    /\ prevApplied.data # prevApplied.base
    /\ lastApplied.data # lastApplied.base
    /\ lastApplied.id \in DOMAIN store
    /\ store[lastApplied.id] = lastApplied.data

\* C28: when the store has applied two mutations of one client on one scope,
\* one after the other, the stored document reflects both: the second was
\* computed on the result of the first, or (when the client had not yet
\* received the snapshot showing the first) the stored document still keeps
\* everything the first one did.
C28_BothMutationsStored ==
    TwoInARow =>
        \/ lastApplied.base = prevApplied.data
        \/ KeepsMutation(prevApplied.base, prevApplied.data, store[lastApplied.id])

\* the same for a second mutation issued after the snapshot showing the first
C28_BothStoredAfterSnapshot ==
    (TwoInARow /\ lastApplied.base = prevApplied.data) =>
        /\ store[lastApplied.id] = lastApplied.data
        /\ DocEdit(prevApplied.data, store[lastApplied.id])

\* a second mutation that changed the document was applied on top of a first
\* one, the client having seen the first
C28_AfterSnapshotWitness ==
    /\ TwoInARow
    /\ lastApplied.base = prevApplied.data
    /\ ~KeepsMutation(lastApplied.base, lastApplied.data, prevApplied.base)

-----------------------------------------------------------------------------
(* C29: every client leaves the loading state *)

\* App renders the spinner: no error, and loading or nothing to show yet
LoadingView(c) == ~crashed[c] /\ ~ErrorView(c) /\ ~Rendered(c)

\* C29: under fair scheduling every client eventually renders scope content
\* or the error view.
C29_EveryClientLeavesLoading ==
    \A c \in Clients : <>(Rendered(c) \/ ErrorView(c))

\* the same, except for a client whose script failed to load or whose
\* anonymous sign-in was rejected in the drawings variant
C29_LeavesLoadingUnlessSignInLost ==
    \A c \in Clients :
        <>( \/ Rendered(c) \/ ErrorView(c)
            \/ crashed[c]
            \/ (variant = "drawings" /\ signIn[c] = "failed") )

\* a client of the drawings variant whose anonymous sign-in was rejected
\* shows the spinner and nothing is left to happen for it
C29_StuckWitness ==
    /\ variant = "drawings"
    /\ signIn["c1"] = "failed"
    /\ LoadingView("c1")
    /\ isLoading["c1"] /\ ~isAuthReady["c1"] /\ ~subscribed["c1"]

\* a seeding batch was rejected and a custom-token sign-in was rejected, and
\* both clients left the loading state
C29_RecoveredWitness ==
    /\ error["c1"] = "seed" /\ ErrorView("c1")
    /\ Rendered("c2")

-----------------------------------------------------------------------------
(* C30: the linked status depends on the Lead Abatement document alone *)

PrereqStatuses == {"N/A", "Not Started", "In Progress", "Complete"}

\* percent, linked count and label computed for X from snapshot all
LinkedStatus(all, X) ==
    << LinkerPercent(all, X), LinkerCount(all, X), LinkedLabel(all, X) >>

\* snapshot all with X's stored lead-abatement prerequisite status set to st
WithStoredStatus(all, X, st) ==
    [ all EXCEPT ![X] = IF variant = "parts"
                        THEN [ @ EXCEPT !.prereqStatusLeadAbatement = st ]
                        ELSE [ @ EXCEPT !.prereqs.leadAbatement.status = st ] ]

\* snapshot all with the parts (drawings) of X replaced by those of scope id
WithItemsOf(all, X, id) ==
    [ all EXCEPT ![X] = IF variant = "parts"
                        THEN [ @ EXCEPT !.parts = all[id].parts ]
                        ELSE [ @ EXCEPT !.drawings = all[id].drawings ] ]

\* snapshots that agree with all on the Lead Abatement document: X's stored
\* status altered, X's document absent, X holding the parts of Lead
\* Abatement, and nothing but the Lead Abatement document
SameAbatement(all, X) ==
    { WithStoredStatus(all, X, st) : st \in PrereqStatuses }
    \cup { [ id \in DOMAIN all \ {X} |-> all[id] ] }
    \cup { WithItemsOf(all, X, id) : id \in DOMAIN all \cap ScopeIds }
    \cup { LAOnly(all) }

\* C30: the percent, linked count and label computed for a scope X other than
\* Lead Abatement depend only on the Lead Abatement document and X: a
\* client's snapshot before and after a step that left its Lead Abatement
\* document alone gives the same three values, and so does every snapshot
\* that differs from the client's in X's document (its stored lead-abatement
\* prerequisite field included) or in the other scopes.
C30_LinkedStatusDependsOnAbatementOnly ==
    [][ \A c \in Clients : \A X \in StandardScopes \cap DOMAIN scopes'[c] :
          /\ ( /\ X \in DOMAIN scopes[c]
               /\ LEAD_ABATEMENT_ID \in DOMAIN scopes[c] \cap DOMAIN scopes'[c]
               /\ scopes'[c][LEAD_ABATEMENT_ID] = scopes[c][LEAD_ABATEMENT_ID] )
             => LinkedStatus(scopes'[c], X) = LinkedStatus(scopes[c], X)
          /\ \A other \in SameAbatement(scopes'[c], X) :
               LinkedStatus(other, X) = LinkedStatus(scopes'[c], X)
      ]_vars

\* the client holds a changed document of a scope whose linked Lead
\* Abatement part is complete, while the scope's own stored field says
\* otherwise
C30_Witness ==
    /\ lastApplied.kind = "set"
    /\ lastApplied.id = OtherScopeId
    /\ lastApplied.data # lastApplied.base
    /\ ~snapPending["c1"]
    /\ OtherScopeId \in DOMAIN scopes["c1"]
    /\ LinkedTo(scopes["c1"], OtherScopeId) # {}
    /\ LinkedStatus(scopes["c1"], OtherScopeId) = << 100, 1, "Complete" >>
    /\ LAStatus(scopes["c1"][OtherScopeId]) # "Complete"

=============================================================================
